---- MODULE Spec2Model ----
(***************************************************************************)
(* A model of the storage-backend abstraction of JormungandrK/backends:    *)
(*   - the document-store pattern compiler  (mongodb.go, toMongoPattern)   *)
(*   - the Backend object                    (backends.go,                 *)
(*                                            RepositoriesBackend)         *)
(*   - the Backend Manager                   (backends.go,                 *)
(*                                            DefaultBackendManager)       *)
(* Strings are sequences of one-character strings.  Goroutines are the     *)
(* members of Procs; a map write is a window (begin .. end) so that an     *)
(* unsynchronised access that falls inside it is visible as a data race.   *)
(***************************************************************************)
EXTENDS Integers, Sequences, FiniteSets, TLC

(***************************************************************************)
(* Bounds of the model.                                                    *)
(***************************************************************************)
\* longest pattern handed to the pattern compiler
MaxLen == 4

\* the rune '\000', used by toMongoPattern as the "no previous rune" sentinel
NUL == "NUL"
\* the wildcard rune
Pct == "%"
\* the runes patterns are drawn from: two plain runes, the wildcard and '\000'
Runes == {"a", "b", Pct, NUL}

RECURSIVE SeqsUpTo(_, _)
\* every sequence over S of length at most n
SeqsUpTo(S, n) ==
    IF n = 0 THEN {<<>>}
    ELSE LET shorter == SeqsUpTo(S, n - 1)
         IN  shorter \cup {Append(s, x) : s \in {t \in shorter : Len(t) = n - 1}, x \in S}

Patterns == SeqsUpTo(Runes, MaxLen)

\* goroutines that may act at once
NumProcs == 2
\* builder invocations that may fail, per repository name and per backend type
MaxFailures == 1
\* values SetInContext may add to a Backend's context
MaxCtx == 1
\* how many calls of Shutdown a Backend is followed through
MaxShutdowns == 2

Procs == 1..NumProcs

\* records a table or collection may hold, and the largest limit and offset
MaxRecords == 2
\* the latest time the clock reaches
MaxTime == 1
\* the table names one ListTables call returns (100 at the store)
ListTablesLimit == 1
\* the records DeleteAll asks GetAll for at a time (batchSize, 128 in
\* src/unnamed/part_002:617)
batchSize == 2

VARIABLES
    \* ---- pattern compiler
    pattern,      \* the argument of toMongoPattern
    compiled,     \* its result
    patDone,      \* TRUE once toMongoPattern has returned
    \* ---- the wide-column pattern compiler
    tokInput,     \* the pattern handed to tokenize / patternToDynamodbCondition
    tokens,       \* the result of tokenize
    conditions,   \* the result of patternToDynamodbCondition
    tokPc,        \* "start", "tokenized" or "compiled"
    \* ---- one RepositoriesBackend (backends.go:85-92)
    repositories, \* m.repositories: repository name -> instance (0: no entry)
    bmutex,       \* m.mutex: the goroutine holding it (0: free)
    ctx,          \* m.ctx: the chain of context.WithValue entries, oldest first
    bpc,          \* where each goroutine is inside a Backend method
    bcall,        \* the arguments and locals of the call a goroutine is in
    bret,         \* the call that returned last: which, and its results
    rbuilds,      \* per name, how often m.repositoryBuilder returned ok / an error
    handed,       \* per name, the instances DefineRepository and GetRepository
                  \* have returned to their callers so far
    cleanupFn,    \* m.cleanupFn: "nil", or the callback the Backend was built with
    cleanups,     \* how often the cleanup callback has been invoked
    shutdowns,    \* how many calls of Shutdown have returned
    \* ---- a second RepositoriesBackend, from another NewRepositoriesBackend
    repositories2, \* its m.repositories (0: no entry)
    bmutex2,       \* its m.mutex: the goroutine holding it (0: free)
    bpc2,          \* where each goroutine is inside its DefineRepository
    bcall2,        \* the name and the new repository of the call a goroutine is in
    \* ---- one DefaultBackendManager (backends.go:153-159)
    backendBuilders, \* m.backendBuilders: backend type -> builder ("none": no entry)
    backendProps,    \* m.backendProps: backend type -> properties ("none": no entry)
    backends,        \* m.backends: backend type -> Backend instance (0: no entry)
    dbConfig,        \* m.dbConfig: backend type -> "info", "nil" or "missing"
    callTypes,       \* the backend types the callers of this manager name
    mmutex,          \* m.mutex: the goroutine holding it (0: free)
    mpc,             \* where each goroutine is inside a manager method
    mcall,           \* the arguments and locals of the call a goroutine is in
    mret,            \* the call that returned last: which, and its results
    mbuilds,         \* per type, how often its builder returned ok / an error
    given,           \* per type, the instances GetBackend has returned so far
    everCached,      \* per type, the instances m.backends has ever held
    \* ---- one Repository: a DynamoCollection or a MongoCollection
    repoDef,      \* its engine and its RepositoryDefinition
    table,        \* the records of the table / collection, in scan order
    now,          \* time.Now(), in seconds
    nextId,       \* how many identifiers uuid.NewV4 / bson.NewObjectId have made
    rret,         \* the call that returned last: its arguments and results
    saving,       \* the Save with a filter that is between its GetOne and its write
    \* ---- one RepositoryDefinitionMap and its readers
    defMap,       \* the map
    defRet,       \* the accessor called last and what it returned
    \* ---- provisioning: the backends of one engine and the remote store
    pEngine,      \* "dynamodb" or "mongodb"
    remote,       \* the tables / collections of the store, as the store lists them
    pcache,       \* per backend, whether m.repositories holds RepoName
    pret,         \* the DefineRepository that returned last
    \* ---- the Go runtime
    aborted       \* TRUE once the runtime has ended the process (fatal error)

patVars == <<pattern, compiled, patDone>>
tokVars == <<tokInput, tokens, conditions, tokPc>>
\* the components added to the model after the pattern compiler, the
\* Backend and the manager
sVars == <<repoDef, table, now, nextId, rret, saving>>
defVars == <<defMap, defRet>>
pVars == <<pEngine, remote, pcache, pret>>
xVars == <<defVars, pVars>>
extVars == <<tokVars, sVars, xVars>>
shutVars == <<cleanupFn, cleanups, shutdowns>>
b2Vars == <<repositories2, bmutex2, bpc2, bcall2>>
bVars == <<repositories, bmutex, ctx, bpc, bcall, bret, rbuilds, handed, shutVars, b2Vars>>
mVars == <<backendBuilders, backendProps, backends, dbConfig, callTypes, mmutex, mpc, mcall,
           mret, mbuilds, given, everCached>>
vars == <<patVars, extVars, bVars, mVars, aborted>>

(***************************************************************************)
(* toMongoPattern (mongodb.go:402-432).                                    *)
(***************************************************************************)
\* A variant of the loop body that forgets to clear prev after an escaped
\* pair (line 411 dropped).
scanRuneNoReset(st, r) ==
    IF r = Pct
    THEN IF st.prev = Pct
         THEN [out |-> Append(st.out, Pct), prev |-> st.prev]
         ELSE [out |-> st.out, prev |-> r]
    ELSE LET o1 == IF st.prev = Pct THEN st.out \o <<".", "*">> ELSE st.out
             o2 == IF r # NUL THEN Append(o1, r) ELSE o1
         IN  [out |-> o2, prev |-> r]

\* One iteration of `for _, r := range pattern` (lines 407-425): st is the
\* pair (mongoPattern, prev) before the iteration, the result the pair after.
scanRune(st, r) ==
    IF r = Pct
    THEN IF st.prev = Pct
         THEN [out |-> Append(st.out, Pct), prev |-> NUL]
         ELSE [out |-> st.out, prev |-> r]
    ELSE LET o1 == IF st.prev = Pct THEN st.out \o <<".", "*">> ELSE st.out
             o2 == IF r # NUL THEN Append(o1, r) ELSE o1
         IN  [out |-> o2, prev |-> r]

RECURSIVE scanLoop(_, _)
\* The whole loop over the runes of p, from the pair st.
scanLoop(st, p) ==
    IF p = <<>> THEN st ELSE scanLoop(scanRune(st, Head(p)), Tail(p))

\* toMongoPattern(pattern): the loop from ("", '\000'), then the trailing
\* wildcard of lines 426-429.
toMongoPattern(p) ==
    LET st == scanLoop([out |-> <<>>, prev |-> NUL], p)
    IN  IF st.prev = Pct THEN st.out \o <<".", "*">> ELSE st.out

\* A caller (toMongoFilter, mongodb.go:390) compiles the pattern it was given.
CompilePattern ==
    /\ ~patDone
    /\ compiled' = toMongoPattern(pattern)
    /\ patDone' = TRUE
    /\ UNCHANGED <<pattern, extVars, bVars, mVars, aborted>>

\* The caller drops the compiled pattern and takes the next one.
NextPattern ==
    /\ patDone
    /\ pattern' \in Patterns
    /\ compiled' = <<>>
    /\ patDone' = FALSE
    /\ UNCHANGED <<extVars, bVars, mVars, aborted>>

PatInit ==
    /\ pattern \in Patterns
    /\ compiled = <<>>
    /\ patDone = FALSE

\* no pattern is being compiled
PatParked ==
    /\ pattern = <<>>
    /\ compiled = <<>>
    /\ patDone = FALSE

PatNext == CompilePattern \/ NextPattern

(***************************************************************************)
(* What the claims about the pattern compiler expect, written as a reader  *)
(* with one rune of lookahead: the pattern as a sequence of lexemes, each  *)
(* percent sign paired from the left.                                      *)
(***************************************************************************)
RECURSIVE Lexemes(_)
Lexemes(p) ==
    IF p = <<>> THEN <<>>
    ELSE IF Head(p) = Pct
         THEN IF Len(p) >= 2 /\ p[2] = Pct
              THEN <<[wild |-> FALSE, r |-> Pct]>> \o Lexemes(SubSeq(p, 3, Len(p)))
              ELSE <<[wild |-> TRUE, r |-> Pct]>> \o Lexemes(Tail(p))
         ELSE <<[wild |-> FALSE, r |-> Head(p)]>> \o Lexemes(Tail(p))

RECURSIVE Fragments(_, _)
\* The regex text of a lexeme sequence: .* for a wildcard, the rune itself
\* otherwise, except that the runes in `dropped` are left out.
Fragments(ls, dropped) ==
    IF ls = <<>> THEN <<>>
    ELSE (IF Head(ls).wild THEN <<".", "*">>
          ELSE IF Head(ls).r \in dropped THEN <<>>
          ELSE <<Head(ls).r>>) \o Fragments(Tail(ls), dropped)

LeadingWildcard(p) == Lexemes(p) # <<>> /\ Lexemes(p)[1].wild
TrailingWildcard(p) == Lexemes(p) # <<>> /\ Lexemes(p)[Len(Lexemes(p))].wild

\* C9 (as claimed): the compiled pattern is anchored to the whole value,
\* ^...$, a leading wildcard removing only the start anchor and a trailing
\* wildcard only the end anchor; without an unescaped % it is exactly ^p$.
C9_Anchored ==
    patDone =>
        compiled = (IF LeadingWildcard(pattern) THEN <<>> ELSE <<"^">>)
                   \o Fragments(Lexemes(pattern), {})
                   \o (IF TrailingWildcard(pattern) THEN <<>> ELSE <<"$">>)

\* C10 (as claimed): every unescaped % becomes .*, every %% one literal %,
\* and every other rune is copied unchanged and in order.
C10_CopiesEveryRune ==
    patDone => compiled = Fragments(Lexemes(pattern), {})

\* C10 (amended): every unescaped % becomes .*, every %% one literal %, and
\* every other rune except '\000' is copied unchanged and in order; a '\000'
\* rune is dropped.  Percent signs pair from the left.
C10_Fragments ==
    patDone => compiled = Fragments(Lexemes(pattern), {NUL})

\* C10 witness: "a%%%" has been compiled to "a%.*" (an odd run of three).
C10_Witness ==
    /\ patDone
    /\ pattern = <<"a", Pct, Pct, Pct>>
    /\ compiled = <<"a", Pct, ".", "*">>

(***************************************************************************)
(* tokenize and patternToDynamodbCondition, the wide-column pattern        *)
(* compiler that dynamodb_test.go exercises.  Neither function is part of  *)
(* the sources at hand; both are written from section 4.2 of the           *)
(* specification: a left-to-right scan that remembers whether the previous *)
(* rune was a percent sign still waiting for its partner.                  *)
(***************************************************************************)
\* The scan at a wildcard boundary: the open token, if it has any rune, is
\* closed; a boundary met before any rune and any boundary is a leading one.
closeToken(st) ==
    [toks    |-> IF st.cur = <<>> THEN st.toks ELSE Append(st.toks, st.cur),
     cur     |-> <<>>,
     pend    |-> FALSE,
     bounds  |-> st.bounds + 1,
     leading |-> st.leading \/ (st.bounds = 0 /\ st.toks = <<>> /\ st.cur = <<>>)]

\* A variant of the scan step in which the second percent sign of a pair
\* is taken for one more wildcard instead of an escape.
tokenRuneNoEscape(st, r) ==
    IF r = Pct
    THEN IF st.pend THEN closeToken(st) ELSE [st EXCEPT !.pend = TRUE]
    ELSE IF st.pend
         THEN [closeToken(st) EXCEPT !.cur = <<r>>]
         ELSE [st EXCEPT !.cur = Append(@, r)]

\* One step of the scan: a percent sign after a waiting percent sign is the
\* literal % of the open token, a lone one waits; any other rune first
\* turns a waiting percent sign into a wildcard boundary, then joins the
\* open token.
tokenRune(st, r) ==
    IF r = Pct
    THEN IF st.pend
         THEN [st EXCEPT !.cur = Append(@, Pct), !.pend = FALSE]
         ELSE [st EXCEPT !.pend = TRUE]
    ELSE IF st.pend
         THEN [closeToken(st) EXCEPT !.cur = <<r>>]
         ELSE [st EXCEPT !.cur = Append(@, r)]

RECURSIVE tokenLoop(_, _)
tokenLoop(st, p) ==
    IF p = <<>> THEN st ELSE tokenLoop(tokenRune(st, Head(p)), Tail(p))

\* The scan of a whole pattern; a percent sign still waiting at the end is
\* a trailing wildcard boundary.
tokenScan(p) ==
    LET st == tokenLoop([toks |-> <<>>, cur |-> <<>>, pend |-> FALSE,
                         bounds |-> 0, leading |-> FALSE], p)
    IN  IF st.pend THEN closeToken(st) ELSE st

\* A variant of tokenize that forgets the token still open at the end.
tokenizeClosedOnly(p) ==
    LET st == tokenScan(p)
    IN  IF st.bounds = 0 THEN <<st.cur>> ELSE st.toks

\* tokenize(pattern): without a boundary the one token is the unescaped
\* input; otherwise the closed tokens and the open one, if it has a rune.
tokenize(p) ==
    LET st == tokenScan(p)
    IN  IF st.bounds = 0 THEN <<st.cur>>
        ELSE IF st.cur = <<>> THEN st.toks ELSE Append(st.toks, st.cur)

\* patternCondition{condition, value} (dynamodb_test.go:113-116)
patternCondition(c, v) == [condition |-> c, value |-> v]

\* A variant that never tells a prefix from an infix.
patternToDynamodbConditionNoPrefix(p) ==
    LET st == tokenScan(p)
        toks == tokenize(p)
    IN  IF st.bounds = 0 THEN <<patternCondition("EQ", toks[1])>>
        ELSE [i \in 1..Len(toks) |-> patternCondition("CONTAINS", toks[i])]

\* patternToDynamodbCondition(pattern): EQ on the one token when there is
\* no wildcard; otherwise one condition per token, BEGINS_WITH for a first
\* token that no wildcard precedes and CONTAINS for every other token.
patternToDynamodbCondition(p) ==
    LET st == tokenScan(p)
        toks == tokenize(p)
    IN  IF st.bounds = 0 THEN <<patternCondition("EQ", toks[1])>>
        ELSE [i \in 1..Len(toks) |->
                 patternCondition(IF i = 1 /\ ~st.leading THEN "BEGINS_WITH"
                                  ELSE "CONTAINS", toks[i])]

\* A caller tokenizes the pattern it was given.
Tokenize ==
    /\ tokPc = "start"
    /\ tokens' = tokenize(tokInput)
    /\ tokPc' = "tokenized"
    /\ UNCHANGED <<tokInput, conditions, sVars, xVars, patVars, bVars, mVars, aborted>>

\* ... and compiles it to conditions.
PatternToDynamodbCondition ==
    /\ tokPc = "tokenized"
    /\ conditions' = patternToDynamodbCondition(tokInput)
    /\ tokPc' = "compiled"
    /\ UNCHANGED <<tokInput, tokens, sVars, xVars, patVars, bVars, mVars, aborted>>

\* The caller drops the results and takes the next pattern.
NextTokInput ==
    /\ tokPc = "compiled"
    /\ tokInput' \in Patterns
    /\ tokens' = <<>>
    /\ conditions' = <<>>
    /\ tokPc' = "start"
    /\ UNCHANGED <<sVars, xVars, patVars, bVars, mVars, aborted>>

TokInit ==
    /\ tokInput \in Patterns
    /\ tokens = <<>>
    /\ conditions = <<>>
    /\ tokPc = "start"

\* no pattern is being tokenized
TokParked ==
    /\ tokInput = <<>>
    /\ tokens = <<>>
    /\ conditions = <<>>
    /\ tokPc = "start"

TokNext == Tokenize \/ PatternToDynamodbCondition \/ NextTokInput

\* What the claims about the wide-column compiler expect, in terms of the
\* lexemes of the pattern.
HasWildcard(p) == \E i \in 1..Len(Lexemes(p)) : Lexemes(p)[i].wild

RECURSIVE LiteralRuns(_, _)
\* The maximal runs of literal lexemes of ls, left to right, after the run
\* `cur` already begun; a wildcard ends a run and empty runs are left out.
LiteralRuns(ls, cur) ==
    LET done == IF cur = <<>> THEN <<>> ELSE <<cur>>
    IN  IF ls = <<>> THEN done
        ELSE IF Head(ls).wild THEN done \o LiteralRuns(Tail(ls), <<>>)
        ELSE LiteralRuns(Tail(ls), Append(cur, Head(ls).r))

\* C11: tokenize splits the pattern at every unescaped % and nowhere else:
\* without one the result is exactly one token, the input with every %%
\* collapsed; with one the tokens are the maximal literal runs in
\* left-to-right order, none of them empty, so that a leading or trailing
\* wildcard adds no token.
C11_Tokenize ==
    tokPc # "start" =>
        /\ ~HasWildcard(tokInput) =>
               tokens = <<Fragments(Lexemes(tokInput), {})>>
        /\ HasWildcard(tokInput) =>
               /\ tokens = LiteralRuns(Lexemes(tokInput), <<>>)
               /\ \A i \in 1..Len(tokens) : tokens[i] # <<>>

\* C11 witness: "%a%b" has been split into "a" and "b".
C11_Witness ==
    /\ tokPc # "start"
    /\ tokInput = <<Pct, "a", Pct, "b">>
    /\ tokens = << <<"a">>, <<"b">> >>

\* C12: a pattern with one token compiles to one condition on that token:
\* EQ without an unescaped %, BEGINS_WITH with a trailing wildcard only,
\* CONTAINS with a leading wildcard, trailing or not; %% is never a
\* wildcard; a pattern of wildcards alone compiles to no condition.
C12_OneToken ==
    tokPc = "compiled" =>
        LET runs == LiteralRuns(Lexemes(tokInput), <<>>)
        IN  /\ ~HasWildcard(tokInput) =>
                   conditions = <<patternCondition("EQ", Fragments(Lexemes(tokInput), {}))>>
            /\ HasWildcard(tokInput) /\ Len(runs) = 1 /\ ~LeadingWildcard(tokInput) =>
                   /\ TrailingWildcard(tokInput)
                   /\ conditions = <<patternCondition("BEGINS_WITH", runs[1])>>
            /\ HasWildcard(tokInput) /\ Len(runs) = 1 /\ LeadingWildcard(tokInput) =>
                   conditions = <<patternCondition("CONTAINS", runs[1])>>
            /\ HasWildcard(tokInput) /\ runs = <<>> => conditions = <<>>

\* C12 witness: "a%%%" has been compiled to BEGINS_WITH "a%".
C12_Witness ==
    /\ tokPc = "compiled"
    /\ tokInput = <<"a", Pct, Pct, Pct>>
    /\ conditions = <<patternCondition("BEGINS_WITH", <<"a", Pct>>)>>

NoErr == [class |-> "none", msg |-> ""]
\* ErrBackendError(msg): a BackendErrorInfo whose message is the detail
ErrBackendError(msg) == [class |-> "BackendError", msg |-> msg]
\* fmt.Errorf(msg)
Errorf(msg) == [class |-> "bare", msg |-> msg]
\* the four classes of errors.go
ErrorClasses == {"NotFound", "AlreadyExists", "InvalidInput", "BackendError"}
\* What a failing builder returns: the repository builders return
\* ErrBackendError(...) for a bad definition and hand the storage client's
\* own error through otherwise.
BuilderErrors == {ErrBackendError("builder"), Errorf("client")}

(***************************************************************************)
(* RepositoriesBackend (backends.go:85-151).                               *)
(***************************************************************************)
Names == {"users", "tokens"}
Keys == {"MONGO_SESSION", "key"}
Nil == "nil"

\* the cleanup a Backend is constructed with: none, or a callback such as
\* the one of MongoDBBackendBuilder, which closes the session
Cleanups == {Nil, "cleanup"}
\* the outcome of a map read that the runtime ends with
\* "fatal error: concurrent map read and map write"
Abort == -1

NoCall == [name |-> "", seen |-> 0, repo |-> 0, val |-> Nil]
NoRet == [op |-> "none", name |-> "", repo |-> 0, val |-> Nil,
          set |-> Nil, err |-> NoErr, built |-> FALSE, seen |-> 0]

RECURSIVE ctxValue(_, _, _)
\* valueCtx.Value: the newest entry whose key has this dynamic type and this
\* text; nil from context.Background().
ctxValue(c, typ, key) ==
    IF c = <<>> THEN Nil
    ELSE LET e == c[Len(c)]
         IN  IF e.typ = typ /\ e.key = key THEN e.val
             ELSE ctxValue(SubSeq(c, 1, Len(c) - 1), typ, key)

\* context.WithValue(c, key, val), the key of dynamic type typ
withValue(c, typ, key, val) == Append(c, [typ |-> typ, key |-> key, val |-> val])

\* GetFromContext's lookup (line 128): m.ctx.Value(key), key a string.
getFromContext(c, key) == ctxValue(c, "string", key)

\* A variant of SetInContext's update that keeps the key a plain string.
setInContextStringKey(c, key, val) == withValue(c, "string", key, val)

\* SetInContext's update (line 133): the key is wrapped in BackendContextKey.
setInContext(c, key, val) == withValue(c, "BackendContextKey", key, val)

\* the goroutines other than p that are inside the assignment of line 112
repoWriters(p) == {q \in Procs \ {p} : bpc[q] = "dr_storing"}

\* What a read of m.repositories[n] by p can give: the entry, unless another
\* goroutine is writing the map, and then the runtime's abort, no entry, the
\* entry, or the one being written.
readRepositories(p, n) ==
    IF repoWriters(p) = {} THEN {repositories[n]}
    ELSE {Abort, 0, repositories[n]}
         \cup {bcall[q].repo : q \in {w \in repoWriters(p) : bcall[w].name = n}}

\* A variant of the second lookup that always misses (lines 104-106 dropped).
recheckRepositoryMiss(n) == 0

\* The second lookup of DefineRepository (line 104), made holding the mutex.
recheckRepository(n) == repositories[n]

\* A variant of the store that loses the entry.
storeRepositoryLost(n, r) == repositories

\* m.repositories[name] = repository (line 112)
storeRepository(n, r) == [repositories EXCEPT ![n] = r]

\* GetRepository's result from its lookup (lines 117-120)
getRepositoryResult(v) ==
    IF v # 0 THEN [repo |-> v, err |-> NoErr]
    ELSE [repo |-> 0, err |-> Errorf("unknown repo")]

RECURSIVE builtRepositories(_)
\* how many repositories the builder has returned, over the names in S
builtRepositories(S) ==
    IF S = {} THEN 0
    ELSE LET n == CHOOSE x \in S : TRUE
         IN  rbuilds[n].ok + builtRepositories(S \ {n})

RECURSIVE failedBuilds(_)
\* how many errors the builder has returned, over the names in S
failedBuilds(S) ==
    IF S = {} THEN 0
    ELSE LET n == CHOOSE x \in S : TRUE
         IN  rbuilds[n].failed + failedBuilds(S \ {n})

\* goroutine p returns r from its call; a repository it returns is noted
bReturn(p, r) ==
    /\ bret' = r
    /\ bpc' = [bpc EXCEPT ![p] = "idle"]
    /\ bcall' = [bcall EXCEPT ![p] = NoCall]
    /\ handed' = IF r.repo # 0 THEN [handed EXCEPT ![r.name] = @ \cup {r.repo}]
                  ELSE handed

\* the runtime ends the process
bAbort ==
    /\ aborted' = TRUE
    /\ UNCHANGED bVars

\* DefineRepository, the lookup without the mutex (lines 98-100)
DefineFast(p) ==
    /\ ~aborted
    /\ bpc[p] = "idle"
    /\ \E n \in Names : \E v \in readRepositories(p, n) :
          IF v = Abort THEN bAbort
          ELSE IF v # 0
          THEN /\ bReturn(p, [NoRet EXCEPT !.op = "DefineRepository", !.name = n,
                                           !.repo = v, !.seen = repositories[n]])
               /\ UNCHANGED <<repositories, bmutex, ctx, rbuilds, aborted>>
          ELSE /\ bpc' = [bpc EXCEPT ![p] = "dr_lock"]
               /\ bcall' = [bcall EXCEPT ![p] = [NoCall EXCEPT !.name = n,
                                                        !.seen = repositories[n]]]
               /\ UNCHANGED <<repositories, bmutex, ctx, bret, rbuilds, handed, aborted>>
    /\ UNCHANGED <<patVars, extVars, mVars, shutVars, b2Vars>>

\* m.mutex.Lock() and the lookup under the mutex (lines 102-106): a hit
\* returns, unlocking; after a miss the builder is called.  Nothing writes
\* the map but under the mutex, so the lookup sees what the lock found.
DefineLock(p) ==
    /\ ~aborted
    /\ bpc[p] = "dr_lock"
    /\ bmutex = 0
    /\ LET v == recheckRepository(bcall[p].name)
       IN  IF v # 0
           THEN /\ bReturn(p, [NoRet EXCEPT !.op = "DefineRepository",
                                            !.name = bcall[p].name, !.repo = v,
                                            !.seen = bcall[p].seen])
                /\ UNCHANGED bmutex
           ELSE /\ bmutex' = p
                /\ bpc' = [bpc EXCEPT ![p] = "dr_build"]
                /\ UNCHANGED <<bcall, bret, handed>>
    /\ UNCHANGED <<repositories, ctx, rbuilds, aborted, patVars, extVars, mVars, shutVars, b2Vars>>

\* A variant of the builder call that returns the builder's error without
\* unlocking (the Unlock of line 102 not deferred).
DefineBuildKeepsLock(p) ==
    /\ ~aborted
    /\ bpc[p] = "dr_build"
    /\ LET n == bcall[p].name
       IN  \/ /\ rbuilds' = [rbuilds EXCEPT ![n].ok = @ + 1]
              /\ bcall' = [bcall EXCEPT ![p].repo = builtRepositories(Names) + 1]
              /\ bpc' = [bpc EXCEPT ![p] = "dr_storing"]
              /\ UNCHANGED <<bmutex, bret, handed>>
           \/ /\ failedBuilds(Names) < MaxFailures
              /\ rbuilds' = [rbuilds EXCEPT ![n].failed = @ + 1]
              /\ \E e \in BuilderErrors :
                    bReturn(p, [NoRet EXCEPT !.op = "DefineRepository", !.name = n,
                                             !.err = e, !.built = TRUE,
                                             !.seen = bcall[p].seen])
              /\ UNCHANGED bmutex
    /\ UNCHANGED <<repositories, ctx, aborted, patVars, extVars, mVars, shutVars, b2Vars>>

\* m.repositoryBuilder(def, m) (lines 108-111): it returns a new repository,
\* and the goroutine goes on to the assignment of line 112, or it returns an
\* error, which DefineRepository returns, unlocking.
DefineBuild(p) ==
    /\ ~aborted
    /\ bpc[p] = "dr_build"
    /\ LET n == bcall[p].name
       IN  \/ /\ rbuilds' = [rbuilds EXCEPT ![n].ok = @ + 1]
              /\ bcall' = [bcall EXCEPT ![p].repo = builtRepositories(Names) + 1]
              /\ bpc' = [bpc EXCEPT ![p] = "dr_storing"]
              /\ UNCHANGED <<bmutex, bret, handed>>
           \/ /\ failedBuilds(Names) < MaxFailures
              /\ rbuilds' = [rbuilds EXCEPT ![n].failed = @ + 1]
              /\ \E e \in BuilderErrors :
                    bReturn(p, [NoRet EXCEPT !.op = "DefineRepository", !.name = n,
                                             !.err = e, !.built = TRUE,
                                             !.seen = bcall[p].seen])
              /\ bmutex' = 0
    /\ UNCHANGED <<repositories, ctx, aborted, patVars, extVars, mVars, shutVars, b2Vars>>

\* the assignment of line 112 completes; return, unlocking (lines 113, 103)
DefineStore(p) ==
    /\ ~aborted
    /\ bpc[p] = "dr_storing"
    /\ repositories' = storeRepository(bcall[p].name, bcall[p].repo)
    /\ bReturn(p, [NoRet EXCEPT !.op = "DefineRepository", !.name = bcall[p].name,
                                !.repo = bcall[p].repo, !.built = TRUE,
                                !.seen = bcall[p].seen])
    /\ bmutex' = 0
    /\ UNCHANGED <<ctx, rbuilds, aborted, patVars, extVars, mVars, shutVars, b2Vars>>

\* GetRepository (lines 116-121): one lookup, without the mutex
GetRepository(p) ==
    /\ ~aborted
    /\ bpc[p] = "idle"
    /\ \E n \in Names : \E v \in readRepositories(p, n) :
          IF v = Abort THEN bAbort
          ELSE /\ bReturn(p, [NoRet EXCEPT !.op = "GetRepository", !.name = n,
                                           !.repo = getRepositoryResult(v).repo,
                                           !.err = getRepositoryResult(v).err,
                                           !.seen = repositories[n]])
               /\ UNCHANGED <<repositories, bmutex, ctx, rbuilds, aborted>>
    /\ UNCHANGED <<patVars, extVars, mVars, shutVars, b2Vars>>

\* SetInContext (lines 130-132): take the mutex and start the assignment to
\* m.ctx of line 133
SetInContextLock(p) ==
    /\ ~aborted
    /\ bpc[p] = "idle"
    /\ bmutex = 0
    /\ Len(SelectSeq(ctx, LAMBDA e : e.typ = "BackendContextKey")) < MaxCtx
    /\ \E k \in Keys :
          bcall' = [bcall EXCEPT ![p] = [NoCall EXCEPT !.name = k, !.val = "value"]]
    /\ bmutex' = p
    /\ bpc' = [bpc EXCEPT ![p] = "sc_storing"]
    /\ UNCHANGED <<repositories, ctx, bret, rbuilds, handed, aborted, patVars, extVars, mVars, shutVars, b2Vars>>

\* the assignment of line 133 completes; return, unlocking
SetInContextStore(p) ==
    /\ ~aborted
    /\ bpc[p] = "sc_storing"
    /\ ctx' = setInContext(ctx, bcall[p].name, bcall[p].val)
    /\ bReturn(p, [NoRet EXCEPT !.op = "SetInContext", !.name = bcall[p].name,
                                !.val = bcall[p].val])
    /\ bmutex' = 0
    /\ UNCHANGED <<repositories, rbuilds, aborted, patVars, extVars, mVars, shutVars, b2Vars>>

\* the goroutines other than p that are inside the assignment of line 133
ctxWriters(p) == {q \in Procs \ {p} : bpc[q] = "sc_storing"}

\* What a read of the interface value m.ctx by p can give: the context, unless
\* another goroutine is assigning it, and then the old or the new context, or,
\* the old one being context.Background() and the new one a *valueCtx, a torn
\* pair of type and pointer, on which the call of Value faults.
readCtx(p) ==
    IF ctxWriters(p) = {} THEN {[fault |-> FALSE, c |-> ctx]}
    ELSE {[fault |-> FALSE, c |-> ctx]}
         \cup {[fault |-> FALSE, c |-> setInContext(ctx, bcall[q].name, bcall[q].val)] :
                   q \in ctxWriters(p)}
         \cup (IF ctx = <<>> THEN {[fault |-> TRUE, c |-> ctx]} ELSE {})

\* GetFromContext (lines 127-129): m.ctx.Value(key), without the mutex.  The
\* result records, for the claims, the value SetInContext last stored for key.
GetFromContext(p) ==
    /\ ~aborted
    /\ bpc[p] = "idle"
    /\ \E k \in Keys : \E r \in readCtx(p) :
          IF r.fault THEN bAbort
          ELSE /\ bReturn(p, [NoRet EXCEPT !.op = "GetFromContext", !.name = k,
                                           !.val = getFromContext(r.c, k),
                                           !.set = ctxValue(ctx, "BackendContextKey", k)])
               /\ UNCHANGED <<repositories, bmutex, ctx, rbuilds, aborted>>
    /\ UNCHANGED <<patVars, extVars, mVars, shutVars, b2Vars>>

\* NewRepositoriesBackend(ctx, ...) (lines 142-151): no repository, a free
\* mutex, and the context it was given: context.Background(), or, from
\* MongoDBBackendBuilder (mongodb.go:77), one holding the session.
BackendInit ==
    /\ repositories = [n \in Names |-> 0]
    /\ bmutex = 0
    /\ ctx \in {<<>>, withValue(<<>>, "string", "MONGO_SESSION", "session")}
    /\ bpc = [p \in Procs |-> "idle"]
    /\ bcall = [p \in Procs |-> NoCall]
    /\ bret = NoRet
    /\ rbuilds = [n \in Names |-> [ok |-> 0, failed |-> 0]]
    /\ handed = [n \in Names |-> {}]
    /\ cleanupFn \in Cleanups
    /\ cleanups = 0
    /\ shutdowns = 0
    /\ repositories2 = [n \in Names |-> 0]
    /\ bmutex2 = 0
    /\ bpc2 = [p \in Procs |-> "idle"]
    /\ bcall2 = [p \in Procs |-> NoCall]

\* A variant of Shutdown's body that invokes the callback on the first call
\* only.
runCleanupOnce(fn, n) == IF fn # Nil /\ n = 0 THEN 1 ELSE n

\* The body of Shutdown (lines 137-139): the callback is invoked if it is
\* not nil; n counts its invocations.
runCleanup(fn, n) == IF fn # Nil THEN n + 1 ELSE n

\* Shutdown (lines 136-140): it takes no mutex and touches neither
\* m.repositories nor m.ctx.
Shutdown(p) ==
    /\ ~aborted
    /\ bpc[p] = "idle"
    /\ shutdowns < MaxShutdowns
    /\ cleanups' = runCleanup(cleanupFn, cleanups)
    /\ shutdowns' = shutdowns + 1
    /\ bReturn(p, [NoRet EXCEPT !.op = "Shutdown"])
    /\ UNCHANGED <<repositories, bmutex, ctx, rbuilds, cleanupFn, aborted>>
    /\ UNCHANGED <<patVars, extVars, mVars, b2Vars>>

(***************************************************************************)
(* DefineRepository (backends.go:96-114) on a second Backend: it has the   *)
(* mutex and the map NewRepositoriesBackend made for it (lines 142-151).   *)
(* Its repositories are numbered from 100.                                 *)
(***************************************************************************)
\* the goroutines other than p inside the assignment of line 112 there
repoWriters2(p) == {q \in Procs \ {p} : bpc2[q] = "dr_storing"}

\* what the lookup of line 98 by p can give on the second Backend
readRepositories2(p, n) ==
    IF repoWriters2(p) = {} THEN {repositories2[n]}
    ELSE {Abort, 0, repositories2[n]}
         \cup {bcall2[q].repo : q \in {w \in repoWriters2(p) : bcall2[w].name = n}}

\* A variant of Lock in which the two Backends share one mutex.
lockable2Shared == bmutex2 = 0 /\ bmutex = 0

\* m.mutex.Lock() (line 101) can proceed: the second Backend's own mutex is
\* free.
lockable2 == bmutex2 = 0

\* the lookup without the mutex (lines 98-100)
DefineFast2(p) ==
    /\ ~aborted
    /\ bpc2[p] = "idle"
    /\ \E n \in Names : \E v \in readRepositories2(p, n) :
          IF v = Abort THEN aborted' = TRUE /\ UNCHANGED b2Vars
          ELSE IF v # 0 THEN UNCHANGED <<b2Vars, aborted>>
          ELSE /\ bpc2' = [bpc2 EXCEPT ![p] = "dr_lock"]
               /\ bcall2' = [bcall2 EXCEPT ![p] = [NoCall EXCEPT !.name = n]]
               /\ UNCHANGED <<repositories2, bmutex2, aborted>>
    /\ UNCHANGED <<repositories, bmutex, ctx, bpc, bcall, bret, rbuilds, handed, shutVars>>
    /\ UNCHANGED <<patVars, extVars, mVars>>

\* Lock and the lookup under the mutex (lines 101-106)
DefineLock2(p) ==
    /\ ~aborted
    /\ bpc2[p] = "dr_lock"
    /\ lockable2
    /\ IF repositories2[bcall2[p].name] # 0
       THEN /\ bpc2' = [bpc2 EXCEPT ![p] = "idle"]
            /\ bcall2' = [bcall2 EXCEPT ![p] = NoCall]
            /\ UNCHANGED bmutex2
       ELSE /\ bmutex2' = p
            /\ bpc2' = [bpc2 EXCEPT ![p] = "dr_build"]
            /\ UNCHANGED bcall2
    /\ UNCHANGED <<repositories2, aborted>>
    /\ UNCHANGED <<repositories, bmutex, ctx, bpc, bcall, bret, rbuilds, handed, shutVars>>
    /\ UNCHANGED <<patVars, extVars, mVars>>

\* the builder returns (lines 108-111): a repository, or an error, which
\* DefineRepository returns, unlocking
DefineBuild2(p) ==
    /\ ~aborted
    /\ bpc2[p] = "dr_build"
    /\ \/ /\ bcall2' = [bcall2 EXCEPT ![p].repo =
                            100 + Cardinality({n \in Names : repositories2[n] # 0})]
          /\ bpc2' = [bpc2 EXCEPT ![p] = "dr_storing"]
          /\ UNCHANGED bmutex2
       \/ /\ bpc2' = [bpc2 EXCEPT ![p] = "idle"]
          /\ bcall2' = [bcall2 EXCEPT ![p] = NoCall]
          /\ bmutex2' = 0
    /\ UNCHANGED <<repositories2, aborted>>
    /\ UNCHANGED <<repositories, bmutex, ctx, bpc, bcall, bret, rbuilds, handed, shutVars>>
    /\ UNCHANGED <<patVars, extVars, mVars>>

\* the assignment of line 112 completes; return, unlocking
DefineStore2(p) ==
    /\ ~aborted
    /\ bpc2[p] = "dr_storing"
    /\ repositories2' = [repositories2 EXCEPT ![bcall2[p].name] = bcall2[p].repo]
    /\ bpc2' = [bpc2 EXCEPT ![p] = "idle"]
    /\ bcall2' = [bcall2 EXCEPT ![p] = NoCall]
    /\ bmutex2' = 0
    /\ UNCHANGED aborted
    /\ UNCHANGED <<repositories, bmutex, ctx, bpc, bcall, bret, rbuilds, handed, shutVars>>
    /\ UNCHANGED <<patVars, extVars, mVars>>

\* one step of goroutine p in the Backend
BackendStep(p) ==
    \/ DefineFast(p)
    \/ DefineLock(p)
    \/ DefineBuild(p)
    \/ DefineStore(p)
    \/ GetRepository(p)
    \/ SetInContextLock(p)
    \/ SetInContextStore(p)
    \/ GetFromContext(p)

BackendNext == \E p \in Procs : BackendStep(p)

BackendSeqNext == BackendStep(1)

\* a Backend nobody calls
BackendParked ==
    /\ BackendInit
    /\ ctx = <<>>
    /\ cleanupFn = Nil

(***************************************************************************)
(* DefaultBackendManager (backends.go:153-225).  GetBackend looks the type *)
(* up without the mutex, then again holding it, and buildBackend, called    *)
(* holding it, looks up the builder and the configuration, calls the        *)
(* builder and stores what it returns.  SupportBackend assigns to two maps  *)
(* and GetSupportedBackends and GetRequiredBackendProperties read them, all *)
(* three without the mutex.  A map read that overlaps a map write, or two   *)
(* overlapping writes, is a data race, modelled as for the Backend.         *)
(***************************************************************************)
Types == {"mongodb", "dynamodb"}
None == "none"

\* what SupportBackend is called with: a builder and its properties
Registrations == {[builder |-> "B1", props |-> "P1"],
                  [builder |-> "B2", props |-> "P2"]}

\* what NewBackendManager is given for a type: a *config.DBInfo, a nil
\* pointer, or no entry
Configs == {"info", "nil", "missing"}

\* what the backend builders return when they fail: MongoDBBackendBuilder the
\* error of NewSession as it is (mongodb.go:72-75), DynamoBackendBuilder an
\* ErrBackendError
BackendBuilderErrors == {ErrBackendError("builder"), Errorf("session")}

NoMCall == [type |-> "", builder |-> None, props |-> None, backend |-> 0]
NoMRet == [op |-> "none", type |-> "", backend |-> 0, err |-> NoErr,
           builder |-> None, props |-> None, replaced |-> None,
           list |-> <<>>, path |-> ""]

\* the goroutines other than p that are inside the assignment of line 211
backendWriters(p) == {q \in Procs \ {p} : mpc[q] = "gb_storing"}

\* the goroutines other than p that are inside the assignment of line 180
builderWriters(p) == {q \in Procs \ {p} : mpc[q] = "sb_builders"}

\* the goroutines other than p that are inside the assignment of line 181
propsWriters(p) == {q \in Procs \ {p} : mpc[q] = "sb_props"}

\* What the lookup of line 162 by p can give: the entry, unless another
\* goroutine is writing the map, and then the runtime's abort, no entry, the
\* entry, or the one being written.
readBackends(p, t) ==
    IF backendWriters(p) = {} THEN {backends[t]}
    ELSE {Abort, 0, backends[t]}
         \cup {mcall[q].backend : q \in {w \in backendWriters(p) : mcall[w].type = t}}

\* A variant of the second lookup that always misses (lines 168-170 dropped).
recheckBackendMiss(t) == 0

\* The second lookup of GetBackend (line 168), made holding the mutex.
recheckBackend(t) == backends[t]

\* What the lookup of line 202 by p can give, "abort" standing for the
\* runtime's abort: SupportBackend writes the map without the mutex.
readBuilders(p, t) ==
    IF builderWriters(p) = {} THEN {backendBuilders[t]}
    ELSE {"abort", None, backendBuilders[t]}
         \cup {mcall[q].builder : q \in {w \in builderWriters(p) : mcall[w].type = t}}

\* What the lookup of line 195 by p can give.
readProps(p, t) ==
    IF propsWriters(p) = {} THEN {backendProps[t]}
    ELSE {"abort", None, backendProps[t]}
         \cup {mcall[q].props : q \in {w \in propsWriters(p) : mcall[w].type = t}}

\* the keys of m.backendBuilders
supported == {t \in Types : backendBuilders[t] # None}

\* The key sets the range loop of line 187 by p can run over, {"abort"}
\* standing for the runtime's abort.
readSupported(p) ==
    IF builderWriters(p) = {} THEN {supported}
    ELSE {{"abort"}, supported}
         \cup {supported \cup {mcall[q].type} : q \in builderWriters(p)}

\* the orders in which a range loop can visit the keys S
Orderings(S) ==
    {l \in [1..Cardinality(S) -> S] : \A i, j \in 1..Cardinality(S) : l[i] = l[j] => i = j}

\* What a goroutine that starts to write a map finds: it proceeds, unless
\* other goroutines are writing the map, and then the runtime may abort.
writeOutcomes(writers) == IF writers = {} THEN {"proceed"} ELSE {"abort", "proceed"}

\* m.backendBuilders[backendType] = builder (line 180)
storeBuilder(t, b) == [backendBuilders EXCEPT ![t] = b]

\* A variant of the assignment of line 181 that loses the properties.
storePropsLost(t, pr) == backendProps

\* m.backendProps[backendType] = properties (line 181)
storeProps(t, pr) == [backendProps EXCEPT ![t] = pr]

\* m.backends[backendType] = backend (line 211)
storeBackend(t, b) == [backends EXCEPT ![t] = b]

\* GetRequiredBackendProperties' result from its lookup (lines 195-198)
requiredPropsResult(v) ==
    IF v # None THEN [props |-> v, err |-> NoErr]
    ELSE [props |-> None, err |-> Errorf("backend not supported")]

RECURSIVE builtBackends(_)
\* how many backends the builders have returned, over the types in S
builtBackends(S) ==
    IF S = {} THEN 0
    ELSE LET t == CHOOSE x \in S : TRUE
         IN  mbuilds[t].ok + builtBackends(S \ {t})

RECURSIVE failedBackendBuilds(_)
\* how many errors the builders have returned, over the types in S
failedBackendBuilds(S) ==
    IF S = {} THEN 0
    ELSE LET t == CHOOSE x \in S : TRUE
         IN  mbuilds[t].failed + failedBackendBuilds(S \ {t})

\* goroutine p returns r from its call; a backend it returns is noted
mReturn(p, r) ==
    /\ mret' = r
    /\ mpc' = [mpc EXCEPT ![p] = "idle"]
    /\ mcall' = [mcall EXCEPT ![p] = NoMCall]
    /\ given' = IF r.backend # 0 THEN [given EXCEPT ![r.type] = @ \cup {r.backend}]
                 ELSE given

\* the runtime ends the process
mAbort ==
    /\ aborted' = TRUE
    /\ UNCHANGED mVars

\* GetBackend, the lookup without the mutex (lines 162-164)
GetBackendFast(p) ==
    /\ ~aborted
    /\ mpc[p] = "idle"
    /\ \E t \in callTypes : \E v \in readBackends(p, t) :
          IF v = Abort THEN mAbort
          ELSE IF v # 0
          THEN /\ mReturn(p, [NoMRet EXCEPT !.op = "GetBackend", !.type = t,
                                            !.backend = v, !.path = "fast"])
               /\ UNCHANGED <<backendBuilders, backendProps, backends, dbConfig,
                              callTypes, mmutex, mbuilds, everCached, aborted>>
          ELSE /\ mpc' = [mpc EXCEPT ![p] = "gb_lock"]
               /\ mcall' = [mcall EXCEPT ![p] = [NoMCall EXCEPT !.type = t]]
               /\ UNCHANGED <<backendBuilders, backendProps, backends, dbConfig,
                              callTypes, mmutex, mret, mbuilds, given, everCached, aborted>>
    /\ UNCHANGED <<patVars, extVars, bVars>>

\* m.mutex.Lock() and the lookup under the mutex (lines 165-170): a hit
\* returns, unlocking; after a miss buildBackend is called.  Nothing writes
\* m.backends but under the mutex, so the lookup sees what the lock found.
GetBackendLock(p) ==
    /\ ~aborted
    /\ mpc[p] = "gb_lock"
    /\ mmutex = 0
    /\ LET v == recheckBackend(mcall[p].type)
       IN  IF v # 0
           THEN /\ mReturn(p, [NoMRet EXCEPT !.op = "GetBackend",
                                             !.type = mcall[p].type, !.backend = v,
                                             !.path = "locked"])
                /\ UNCHANGED mmutex
           ELSE /\ mmutex' = p
                /\ mpc' = [mpc EXCEPT ![p] = "gb_lookup"]
                /\ UNCHANGED <<mcall, mret, given>>
    /\ UNCHANGED <<backendBuilders, backendProps, backends, dbConfig, callTypes,
                   mbuilds, everCached, aborted, patVars, extVars, bVars>>

\* A variant of buildBackend that takes a nil configuration entry for a
\* configuration (the test dbInfo == nil of line 204 dropped).
GetBackendLookupNilConfig(p) ==
    /\ ~aborted
    /\ mpc[p] = "gb_lookup"
    /\ LET t == mcall[p].type
       IN  \E b \in readBuilders(p, t) :
             IF b = "abort" THEN mAbort
             ELSE IF b = None
             THEN /\ mReturn(p, [NoMRet EXCEPT !.op = "GetBackend", !.type = t,
                                               !.err = Errorf("backend not supported"),
                                               !.path = "build"])
                  /\ mmutex' = 0
                  /\ UNCHANGED aborted
             ELSE IF dbConfig[t] = "missing"
             THEN /\ mReturn(p, [NoMRet EXCEPT !.op = "GetBackend", !.type = t,
                                               !.err = Errorf("backend not configured"),
                                               !.path = "build"])
                  /\ mmutex' = 0
                  /\ UNCHANGED aborted
             ELSE /\ mpc' = [mpc EXCEPT ![p] = "gb_build"]
                  /\ UNCHANGED <<mmutex, mcall, mret, given, aborted>>
    /\ UNCHANGED <<backendBuilders, backendProps, backends, dbConfig, callTypes,
                   mbuilds, everCached, patVars, extVars, bVars>>

\* buildBackend up to the call of the builder (lines 202-206, 214): no
\* builder, or no configuration, is an error GetBackend returns, unlocking
\* (lines 173-175).
GetBackendLookup(p) ==
    /\ ~aborted
    /\ mpc[p] = "gb_lookup"
    /\ LET t == mcall[p].type
       IN  \E b \in readBuilders(p, t) :
             IF b = "abort" THEN mAbort
             ELSE IF b = None
             THEN /\ mReturn(p, [NoMRet EXCEPT !.op = "GetBackend", !.type = t,
                                               !.err = Errorf("backend not supported"),
                                               !.path = "build"])
                  /\ mmutex' = 0
                  /\ UNCHANGED aborted
             ELSE IF dbConfig[t] # "info"
             THEN /\ mReturn(p, [NoMRet EXCEPT !.op = "GetBackend", !.type = t,
                                               !.err = Errorf("backend not configured"),
                                               !.path = "build"])
                  /\ mmutex' = 0
                  /\ UNCHANGED aborted
             ELSE /\ mpc' = [mpc EXCEPT ![p] = "gb_build"]
                  /\ UNCHANGED <<mmutex, mcall, mret, given, aborted>>
    /\ UNCHANGED <<backendBuilders, backendProps, backends, dbConfig, callTypes,
                   mbuilds, everCached, patVars, extVars, bVars>>

\* backendBuilder(dbInfo, m) (lines 207-210): it returns a new backend, and
\* the goroutine goes on to the assignment of line 211, or it returns an
\* error, which GetBackend returns, unlocking.
GetBackendBuild(p) ==
    /\ ~aborted
    /\ mpc[p] = "gb_build"
    /\ LET t == mcall[p].type
       IN  \/ /\ mbuilds' = [mbuilds EXCEPT ![t].ok = @ + 1]
              /\ mcall' = [mcall EXCEPT ![p].backend = builtBackends(Types) + 1]
              /\ mpc' = [mpc EXCEPT ![p] = "gb_storing"]
              /\ UNCHANGED <<mmutex, mret, given>>
           \/ /\ failedBackendBuilds(Types) < MaxFailures
              /\ mbuilds' = [mbuilds EXCEPT ![t].failed = @ + 1]
              /\ \E e \in BackendBuilderErrors :
                    mReturn(p, [NoMRet EXCEPT !.op = "GetBackend", !.type = t,
                                              !.err = e, !.path = "build"])
              /\ mmutex' = 0
    /\ UNCHANGED <<backendBuilders, backendProps, backends, dbConfig, callTypes,
                   everCached, aborted, patVars, extVars, bVars>>

\* the assignment of line 211 completes; return, unlocking (lines 212, 176)
GetBackendStore(p) ==
    /\ ~aborted
    /\ mpc[p] = "gb_storing"
    /\ backends' = storeBackend(mcall[p].type, mcall[p].backend)
    /\ everCached' = [everCached EXCEPT ![mcall[p].type] = @ \cup {mcall[p].backend}]
    /\ mReturn(p, [NoMRet EXCEPT !.op = "GetBackend", !.type = mcall[p].type,
                                 !.backend = mcall[p].backend, !.path = "build"])
    /\ mmutex' = 0
    /\ UNCHANGED <<backendBuilders, backendProps, dbConfig, callTypes, mbuilds,
                   aborted, patVars, extVars, bVars>>

\* SupportBackend starts the assignment of line 180, without the mutex
SupportBackendBegin(p) ==
    /\ ~aborted
    /\ mpc[p] = "idle"
    /\ \E t \in callTypes : \E reg \in Registrations :
       \E o \in writeOutcomes(builderWriters(p)) :
          IF o = "abort" THEN mAbort
          ELSE /\ mcall' = [mcall EXCEPT ![p] = [NoMCall EXCEPT !.type = t,
                                                         !.builder = reg.builder,
                                                         !.props = reg.props]]
               /\ mpc' = [mpc EXCEPT ![p] = "sb_builders"]
               /\ UNCHANGED <<backendBuilders, backendProps, backends, dbConfig,
                              callTypes, mmutex, mret, mbuilds, given, everCached, aborted>>
    /\ UNCHANGED <<patVars, extVars, bVars>>

\* the assignment of line 180 completes and that of line 181 starts
SupportBackendBuilders(p) ==
    /\ ~aborted
    /\ mpc[p] = "sb_builders"
    /\ \E o \in writeOutcomes(propsWriters(p)) :
          IF o = "abort" THEN mAbort
          ELSE /\ backendBuilders' = storeBuilder(mcall[p].type, mcall[p].builder)
               /\ mpc' = [mpc EXCEPT ![p] = "sb_props"]
               /\ UNCHANGED <<backendProps, backends, dbConfig, callTypes, mmutex, mcall,
                              mret, mbuilds, given, everCached, aborted>>
    /\ UNCHANGED <<patVars, extVars, bVars>>

\* the assignment of line 181 completes; SupportBackend returns (line 182).
\* The result records, for the claims, the properties the call replaced.
SupportBackendProps(p) ==
    /\ ~aborted
    /\ mpc[p] = "sb_props"
    /\ backendProps' = storeProps(mcall[p].type, mcall[p].props)
    /\ mReturn(p, [NoMRet EXCEPT !.op = "SupportBackend", !.type = mcall[p].type,
                                 !.builder = mcall[p].builder,
                                 !.props = mcall[p].props,
                                 !.replaced = backendProps[mcall[p].type]])
    /\ UNCHANGED <<backendBuilders, backends, dbConfig, callTypes, mmutex, mbuilds,
                   everCached, aborted, patVars, extVars, bVars>>

\* GetSupportedBackends (lines 184-192): the keys of m.backendBuilders, in
\* the order the range loop visits them, read without the mutex
GetSupportedBackends(p) ==
    /\ ~aborted
    /\ mpc[p] = "idle"
    /\ \E S \in readSupported(p) :
          IF S = {"abort"} THEN mAbort
          ELSE /\ \E l \in Orderings(S) :
                     mReturn(p, [NoMRet EXCEPT !.op = "GetSupportedBackends",
                                               !.list = l])
               /\ UNCHANGED <<backendBuilders, backendProps, backends, dbConfig,
                              callTypes, mmutex, mbuilds, everCached, aborted>>
    /\ UNCHANGED <<patVars, extVars, bVars>>

\* GetRequiredBackendProperties (lines 194-199): one lookup, without the mutex
GetRequiredBackendProperties(p) ==
    /\ ~aborted
    /\ mpc[p] = "idle"
    /\ \E t \in callTypes : \E v \in readProps(p, t) :
          IF v = "abort" THEN mAbort
          ELSE /\ mReturn(p, [NoMRet EXCEPT !.op = "GetRequiredBackendProperties",
                                            !.type = t,
                                            !.props = requiredPropsResult(v).props,
                                            !.err = requiredPropsResult(v).err])
               /\ UNCHANGED <<backendBuilders, backendProps, backends, dbConfig,
                              callTypes, mmutex, mbuilds, everCached, aborted>>
    /\ UNCHANGED <<patVars, extVars, bVars>>

\* NewBackendManager(dbConfig) (lines 217-225): empty maps, a free mutex, and
\* the configuration it was given, here one with "mongodb" configured.
ManagerInit ==
    /\ backendBuilders = [t \in Types |-> None]
    /\ backendProps = [t \in Types |-> None]
    /\ backends = [t \in Types |-> 0]
    /\ dbConfig \in {[t \in Types |-> IF t = "mongodb" THEN "info" ELSE c] :
                         c \in Configs}
    /\ callTypes = Types
    /\ mmutex = 0
    /\ mpc = [p \in Procs |-> "idle"]
    /\ mcall = [p \in Procs |-> NoMCall]
    /\ mret = NoMRet
    /\ mbuilds = [t \in Types |-> [ok |-> 0, failed |-> 0]]
    /\ given = [t \in Types |-> {}]
    /\ everCached = [t \in Types |-> {}]

\* one step of goroutine p in the manager
ManagerStep(p) ==
    \/ GetBackendFast(p)
    \/ GetBackendLock(p)
    \/ GetBackendLookup(p)
    \/ GetBackendBuild(p)
    \/ GetBackendStore(p)
    \/ SupportBackendBegin(p)
    \/ SupportBackendBuilders(p)
    \/ SupportBackendProps(p)
    \/ GetSupportedBackends(p)
    \/ GetRequiredBackendProperties(p)

ManagerNext == \E p \in Procs : ManagerStep(p)

ManagerSeqNext == ManagerStep(1)

\* a manager nobody calls
ManagerParked ==
    /\ ManagerInit
    /\ dbConfig = [t \in Types |-> "info"]

\* A manager whose callers all name one type, "mongodb", which is configured
\* or has a nil configuration.
ManagerInitOneType ==
    /\ backendBuilders = [t \in Types |-> None]
    /\ backendProps = [t \in Types |-> None]
    /\ backends = [t \in Types |-> 0]
    /\ dbConfig \in {[t \in Types |-> IF t = "mongodb" THEN c ELSE "missing"] :
                         c \in {"info", "nil"}}
    /\ callTypes = {"mongodb"}
    /\ mmutex = 0
    /\ mpc = [p \in Procs |-> "idle"]
    /\ mcall = [p \in Procs |-> NoMCall]
    /\ mret = NoMRet
    /\ mbuilds = [t \in Types |-> [ok |-> 0, failed |-> 0]]
    /\ given = [t \in Types |-> {}]
    /\ everCached = [t \in Types |-> {}]

(***************************************************************************)
(* Error classes and their comparison (errors.go:62-89).                   *)
(***************************************************************************)
\* ErrNotFound(detail), ErrAlreadyExists(detail), ErrInvalidInput(detail)
ErrNotFound(detail) == [class |-> "NotFound", msg |-> detail]
ErrAlreadyExists(detail) == [class |-> "AlreadyExists", msg |-> detail]
ErrInvalidInput(detail) == [class |-> "InvalidInput", msg |-> detail]

\* err.Error(): the class message of a class error, fmt.Sprint of the
\* arguments for ErrBackendError, the text itself for any other error.
errorText(e) ==
    CASE e.class = "NotFound" -> <<"not found">>
      [] e.class = "AlreadyExists" -> <<"already exists">>
      [] e.class = "InvalidInput" -> <<"invalid input">>
      [] e.class = "BackendError" -> <<"[", e.msg, "]">>
      [] OTHER -> <<e.msg>>

\* IsErrorOfType(err, backendErr)
IsErrorOfType(err, backendErr) == errorText(err) = errorText(backendErr)
\* IsErrNotFound(err)
IsErrNotFound(err) == IsErrorOfType(err, ErrNotFound(""))
\* IsErrAlreadyExistis(err)
IsErrAlreadyExistis(err) == IsErrorOfType(err, ErrAlreadyExists(""))

(***************************************************************************)
(* Records, payloads and filters.  A record is its attributes; an          *)
(* attribute it does not have is Absent.  Identifiers are pairs: "k" for   *)
(* one the caller chose, "u" for a uuid, "o" for an ObjectId (the only     *)
(* kind that is the hex form of an ObjectId).                              *)
(***************************************************************************)
Absent == <<>>
\* the values of the attribute "value"
Vals == {<<"a", "a">>, <<"b", "a">>}
\* the identifier a caller fixes by hand
CallerId == <<"k", 1>>
\* the seconds a record lives when TTL is enabled (GetTTL())
TTLSeconds == 1

NoRecord == [oid |-> Absent, id |-> Absent, value |-> Absent, exp |-> Absent]

\* The filters callers pass: per attribute no entry (Absent), an exact
\* value <<"eq", v>> or a pattern directive <<"pattern", p>>.
eq(v) == <<"eq", v>>
matchPattern(p) == <<"pattern", p>>
\* The empty filter, and the nil filter of Save.
NoFilter == [nil |-> FALSE, oid |-> Absent, id |-> Absent, value |-> Absent]
NilFilter == [NoFilter EXCEPT !.nil = TRUE]
Filters(ids) ==
    {[NoFilter EXCEPT !.value = e] : e \in {eq(<<"a", "a">>), matchPattern(<<"a", Pct>>)}}
    \cup {[NoFilter EXCEPT !.id = eq(i)] : i \in ids}

RECURSIVE Like(_, _)
\* LIKE: the value v matches the lexemes ls, a wildcard standing for any
\* run of runes.
Like(v, ls) ==
    IF ls = <<>> THEN v = <<>>
    ELSE IF Head(ls).wild
         THEN \E k \in 0..Len(v) : Like(SubSeq(v, k + 1, Len(v)), Tail(ls))
         ELSE v # <<>> /\ Head(v) = Head(ls).r /\ Like(Tail(v), Tail(ls))

\* what a filter entry means: equality, or LIKE for a pattern directive
entryHolds(e, v) ==
    \/ e = Absent
    \/ e[1] = "eq" /\ v = e[2]
    \/ e[1] = "pattern" /\ v # Absent /\ Like(v, Lexemes(e[2]))

\* a record satisfies every entry of a filter
Satisfies(rec, f) ==
    /\ entryHolds(f.id, rec.id)
    /\ entryHolds(f.value, rec.value)

\* the positions of a sequence whose element passes the test, in order
RECURSIVE positionsFrom(_, _, _)
positionsFrom(keep, i, n) ==
    IF i > n THEN <<>>
    ELSE (IF i \in keep THEN <<i>> ELSE <<>>) \o positionsFrom(keep, i + 1, n)

(***************************************************************************)
(* DynamoCollection (dynamodb.go:246-418).  Positions of `table` stand for *)
(* primary keys in scan order; position 0 is "no key".                     *)
(***************************************************************************)
\* One "$ = ?" condition of the filter expression (lines 258-262, 298-302):
\* the attribute is compared with the filter's value as it is, so a pattern
\* directive, being a map, equals no stored string.
dynEntry(e, v) ==
    \/ e = Absent
    \/ e[1] = "eq" /\ v = e[2]

\* The filter expression of GetOne and of the first scan of GetAll: the
\* entries joined by AND, and "$ > ?" on the TTL attribute when TTL is
\* enabled (lines 264-268, 304-308).
dynFilter(rec, f, def, t) ==
    /\ dynEntry(f.id, rec.id)
    /\ dynEntry(f.value, rec.value)
    /\ def.enableTTL => (rec.exp # Absent /\ rec.exp[1] > t)

\* Table.Scan()...StartFrom(start).SearchLimit(n): the store evaluates the
\* n items after `start`, returns those of them that pass (all of them when
\* the scan carries no filter) and, when it stopped at the limit, the key
\* of the last item it evaluated.
scanPage(tbl, start, n, filtered, f, def, t) ==
    LET last == IF start + n <= Len(tbl) THEN start + n ELSE Len(tbl)
        keep == {i \in (start + 1)..last :
                     ~filtered \/ dynFilter(tbl[i], f, def, t)}
    IN  [items |-> positionsFrom(keep, start + 1, last),
         lek   |-> IF last - start = n THEN last ELSE 0]

\* GetOne (lines 252-286): Scan().Filter(...).Limit(1).All(&records).
dynGetOne(tbl, f, def, t) ==
    LET hits == positionsFrom({i \in 1..Len(tbl) : dynFilter(tbl[i], f, def, t)},
                              1, Len(tbl))
    IN  IF hits = <<>>
        THEN [err |-> ErrNotFound("Record not found"), out |-> <<>>, at |-> 0]
        ELSE [err |-> NoErr, out |-> <<tbl[hits[1]]>>, at |-> hits[1]]

RECURSIVE dynGetAllLoop(_, _, _, _, _)
\* The iterations of the loop of GetAll after the first (lines 317-335):
\* every one reads one more item with a scan that carries no filter.
dynGetAllLoop(tbl, start, acc, i, limit) ==
    LET page == scanPage(tbl, start, 1, FALSE, NoFilter, [enableTTL |-> FALSE], 0)
    IN  IF page.items = <<>> THEN acc
        ELSE IF limit # 0 /\ i >= limit THEN acc
        ELSE dynGetAllLoop(tbl, page.lek, Append(acc, tbl[page.items[1]]), i + 1, limit)

\* GetAll (lines 289-338).  The first scan carries the filter and evaluates
\* offset+1 items; of what it returns the loop takes the first item.  The
\* key the next scan starts from is the iterator's LastEvaluatedKey(): the
\* page's (byPage) or, in clients that track the item handed out last,
\* that item's key when the page holds more.
dynGetAll(tbl, f, def, t, limit, offset, byPage) ==
    LET startFrom == IF offset # 0 THEN offset + 1 ELSE 1
        page == scanPage(tbl, 0, startFrom, TRUE, f, def, t)
        lek == IF byPage \/ Len(page.items) = 1 THEN page.lek ELSE page.items[1]
    IN  IF page.items = <<>> THEN <<>>
        ELSE dynGetAllLoop(tbl, lek, <<tbl[page.items[1]]>>, 1, limit)

\* the primary key of a record: its hash key attribute
dynKey(rec, def) == IF def.hashKey = "id" THEN rec.id ELSE rec.value

\* Save with a nil filter (lines 353-381): a new uuid always replaces the
\* payload's "id", the expiry is stamped when TTL is enabled, and the item
\* is put on condition that no item with its primary key exists.  Where a
\* scan meets the new item is up to the store: pos.
dynCreate(tbl, obj, def, t, uuid, pos) ==
    LET item == [oid |-> Absent, id |-> uuid, value |-> obj.value,
                 exp |-> IF def.enableTTL THEN <<t + TTLSeconds>> ELSE Absent]
    IN  IF \E i \in 1..Len(tbl) : dynKey(tbl[i], def) = dynKey(item, def)
        THEN [err |-> ErrAlreadyExists("record already exists!"), out |-> <<>>, tbl |-> tbl]
        ELSE [err |-> NoErr, out |-> <<item>>,
              tbl |-> SubSeq(tbl, 1, pos - 1) \o <<item>> \o SubSeq(tbl, pos, Len(tbl))]

\* A variant of the Set clauses that does not skip the hash key.
dynSetWithKey(rec, obj, def) ==
    [rec EXCEPT !.id = IF obj.id # Absent THEN obj.id ELSE @,
                !.value = IF obj.value # Absent THEN obj.value ELSE @]

\* the Set clauses of the update (lines 397-401): every attribute of the
\* payload except the hash key
dynSet(rec, obj, def) ==
    [rec EXCEPT !.id = IF obj.id # Absent /\ def.hashKey # "id" THEN obj.id ELSE @,
                !.value = IF obj.value # Absent /\ def.hashKey # "value" THEN obj.value ELSE @]

\* Save with a filter (lines 382-410): GetOne resolves the item, whose key
\* the update is addressed to.
dynUpdate(tbl, obj, f, def, t) ==
    LET got == dynGetOne(tbl, f, def, t)
    IN  IF got.err # NoErr THEN [err |-> got.err, out |-> <<>>, tbl |-> tbl]
        ELSE LET item == dynSet(tbl[got.at], obj, def)
             IN  [err |-> NoErr, out |-> <<item>>,
                  tbl |-> [tbl EXCEPT ![got.at] = item]]

\* the table without the item at position i
removeAt(tbl, i) == SubSeq(tbl, 1, i - 1) \o SubSeq(tbl, i + 1, Len(tbl))

\* DeleteOne (lines 425-453): GetOne resolves the item, and the item with
\* its hash key is deleted.
dynDeleteOne(tbl, f, def, t) ==
    LET got == dynGetOne(tbl, f, def, t)
        at  == CHOOSE i \in 1..Len(tbl) : dynKey(tbl[i], def) = dynKey(got.out[1], def)
    IN  IF got.err # NoErr THEN [err |-> got.err, tbl |-> tbl]
        ELSE [err |-> NoErr, tbl |-> removeAt(tbl, at)]

\* the entry of a filter for the hash key: filter[hashKey]
hashEntry(f, def) == IF def.hashKey = "id" THEN f.id ELSE f.value

\* DeleteAll (lines 462-504): the filter names the hash keys of the items
\* as a []string, and one batch write deletes the items with those keys.
dynDeleteAllKeys(tbl, f, def) ==
    LET e    == hashEntry(f, def)
        keep == {i \in 1..Len(tbl) : \A k \in 1..Len(e[2]) : dynKey(tbl[i], def) # e[2][k]}
        pos  == positionsFrom(keep, 1, Len(tbl))
    IN  IF e = Absent \/ e[1] # "keys"
        THEN [err |-> ErrBackendError("hash key not specified in the filter"), tbl |-> tbl]
        ELSE [err |-> NoErr, tbl |-> [k \in 1..Len(pos) |-> tbl[pos[k]]]]

\* NewFilter().Match(hashKey, (*result)[hashKey]) (src/unnamed/part_002:632)
delFilter(rec, def) ==
    IF def.hashKey = "id" THEN [NoFilter EXCEPT !.id = eq(rec.id)]
    ELSE [NoFilter EXCEPT !.value = eq(rec.value)]

RECURSIVE dynDeleteEach(_, _, _, _)
\* DeleteOne for every record of a batch, up to the first error
\* (src/unnamed/part_002:631-639)
dynDeleteEach(tbl, results, def, t) ==
    IF results = <<>> THEN [err |-> NoErr, tbl |-> tbl]
    ELSE LET r == dynDeleteOne(tbl, delFilter(Head(results), def), def, t)
         IN  IF r.err # NoErr THEN r ELSE dynDeleteEach(r.tbl, Tail(results), def, t)

RECURSIVE dynDeleteAllLoop(_, _, _, _, _, _)
\* The loop of the later DeleteAll (src/unnamed/part_002:620-641): a batch
\* from GetAll, DeleteOne for each record of it, the offset moved on by
\* the size of the batch, until a batch is empty.  pages is the number of
\* batches it asked GetAll for.
dynDeleteAllLoop(tbl, f, def, t, offset, byPage) ==
    LET results == dynGetAll(tbl, f, def, t, batchSize, offset, byPage)
        done    == dynDeleteEach(tbl, results, def, t)
        rest    == dynDeleteAllLoop(done.tbl, f, def, t, offset + Len(results), byPage)
    IN  IF results = <<>> THEN [err |-> NoErr, tbl |-> tbl, pages |-> 1]
        ELSE IF done.err # NoErr THEN [err |-> done.err, tbl |-> done.tbl, pages |-> 1]
        ELSE [rest EXCEPT !.pages = @ + 1]

\* DeleteAll of the later revision (src/unnamed/part_002:609-644): the
\* filter has to hold the hash key.
dynDeleteAll(tbl, f, def, t, byPage) ==
    IF hashEntry(f, def) = Absent
    THEN [err |-> ErrInvalidInput("range hash key must be provided"), tbl |-> tbl,
          pages |-> 0]
    ELSE dynDeleteAllLoop(tbl, f, def, t, 0, byPage)

(***************************************************************************)
(* MongoCollection (mongodb.go:163-382).  Positions of `table` are the     *)
(* natural order of the collection.                                        *)
(***************************************************************************)
\* bson.IsObjectIdHex(id)
IsObjectIdHex(id) == id[1] = "o"

\* stringToObjectID(filter) (helper.go:92-105), called when the definition
\* has no custom id: an "id" entry is taken out of the filter and, when it
\* is the hex form of an ObjectId, put back as "_id".
stringToObjectID(f, def) ==
    IF def.customID \/ f.id = Absent THEN [err |-> NoErr, filter |-> f]
    ELSE IF ~IsObjectIdHex(f.id[2])
         THEN [err |-> Errorf("id is a invalid hex representation of an ObjectId"),
               filter |-> [f EXCEPT !.id = Absent]]
         ELSE [err |-> NoErr, filter |-> [f EXCEPT !.id = Absent, !.oid = f.id]]

\* toMongoFilter(filter) (lines 384-400): a pattern directive is replaced
\* by the compiled pattern, a string the attribute then has to equal.
toMongoFilter(f) ==
    [f EXCEPT !.value = IF @ # Absent /\ @[1] = "pattern"
                        THEN eq(toMongoPattern(@[2])) ELSE @]

\* the server refuses a query document that holds an operator it does not
\* know, as { $pattern: ... } is when a filter reaches it uncompiled
unknownOperator(f) == f.value # Absent /\ f.value[1] = "pattern"

\* c.Find(filter): the documents whose attributes equal the entries
mongoFind(tbl, f) ==
    positionsFrom({i \in 1..Len(tbl) :
                       /\ f.oid = Absent \/ tbl[i].oid = f.oid[2]
                       /\ f.id = Absent \/ tbl[i].id = f.id[2]
                       /\ f.value = Absent \/ tbl[i].value = f.value[2]},
                  1, Len(tbl))

\* the record handed back for a document: without a custom id, "id" is the
\* hex form of "_id" (lines 180-184, 257-264)
mongoRecord(doc, def) == IF def.customID THEN doc ELSE [doc EXCEPT !.id = doc.oid]

\* GetOne (lines 163-192): the filter goes to Find as it is.
mongoGetOne(tbl, f, def) ==
    LET conv == stringToObjectID(f, def)
        hits == mongoFind(tbl, conv.filter)
    IN  IF conv.err # NoErr THEN [err |-> conv.err, out |-> <<>>]
        ELSE IF unknownOperator(conv.filter)
             THEN [err |-> Errorf("unknown operator: $pattern"), out |-> <<>>]
        ELSE IF hits = <<>> THEN [err |-> Errorf("not found"), out |-> <<>>]
        ELSE [err |-> NoErr, out |-> <<mongoRecord(tbl[hits[1]], def)>>]

\* GetAll (lines 195-274) without an order: Find(toMongoFilter(filter)),
\* Skip(offset) when offset # 0, Limit(limit) when limit # 0.
mongoGetAll(tbl, f, def, limit, offset) ==
    LET conv == stringToObjectID(f, def)
        hits == mongoFind(tbl, toMongoFilter(conv.filter))
        from == offset + 1
        to   == IF limit # 0 /\ offset + limit < Len(hits) THEN offset + limit
                ELSE Len(hits)
    IN  IF conv.err # NoErr THEN [err |-> ErrInvalidInput(conv.err.msg), out |-> <<>>]
        ELSE [err |-> NoErr,
              out |-> [k \in 1..(IF to >= from THEN to - from + 1 ELSE 0) |->
                          mongoRecord(tbl[hits[from + k - 1]], def)]]

\* mgo.IsDup: the write would give two documents the same value of the
\* attribute that carries a unique index
isDup(tbl, doc, at, def) ==
    /\ def.unique # "none"
    /\ \E i \in 1..Len(tbl) :
           /\ i # at
           /\ IF def.unique = "id" THEN doc.id # Absent /\ tbl[i].id = doc.id
              ELSE doc.value # Absent /\ tbl[i].value = doc.value

\* Save with a nil filter (lines 286-311): "_id" is a new ObjectId, "id" is
\* dropped from the payload without a custom id, and the document is
\* inserted.
mongoCreate(tbl, obj, def, oid) ==
    LET doc == [oid |-> oid, id |-> IF def.customID THEN obj.id ELSE Absent,
                value |-> obj.value, exp |-> Absent]
    IN  IF isDup(tbl, doc, 0, def)
        THEN [err |-> ErrAlreadyExists("record already exists!"), out |-> <<>>, tbl |-> tbl]
        ELSE [err |-> NoErr, out |-> <<mongoRecord(doc, def)>>, tbl |-> Append(tbl, doc)]

\* Save with a filter (lines 313-342): "_id" is taken out of the payload,
\* the first document matching the filter gets the rest of it by $set, and
\* GetOne reads the result back.
mongoUpdate(tbl, obj, f, def) ==
    LET conv == stringToObjectID(f, def)
        hits == mongoFind(tbl, conv.filter)
        doc  == [tbl[hits[1]] EXCEPT !.id = IF obj.id # Absent THEN obj.id ELSE @,
                                     !.value = IF obj.value # Absent THEN obj.value ELSE @]
        tbl2 == [tbl EXCEPT ![hits[1]] = doc]
        back == mongoGetOne(tbl2, conv.filter, def)
    IN  IF conv.err # NoErr
        THEN [err |-> ErrInvalidInput(conv.err.msg), out |-> <<>>, tbl |-> tbl]
        ELSE IF unknownOperator(conv.filter)
             THEN [err |-> Errorf("unknown operator: $pattern"), out |-> <<>>, tbl |-> tbl]
        ELSE IF hits = <<>>
             THEN [err |-> ErrNotFound("not found"), out |-> <<>>, tbl |-> tbl]
        ELSE IF isDup(tbl, doc, hits[1], def)
             THEN [err |-> ErrAlreadyExists("record already exists!"), out |-> <<>>, tbl |-> tbl]
        ELSE [err |-> back.err, out |-> back.out, tbl |-> tbl2]

\* DeleteOne (lines 345-362): c.Remove(filter) removes the first document
\* that matches; the filter goes to the server as it is.
mongoDeleteOne(tbl, f, def) ==
    LET conv == stringToObjectID(f, def)
        hits == mongoFind(tbl, conv.filter)
    IN  IF conv.err # NoErr THEN [err |-> ErrInvalidInput(conv.err.msg), tbl |-> tbl]
        ELSE IF unknownOperator(conv.filter)
             THEN [err |-> Errorf("unknown operator: $pattern"), tbl |-> tbl]
        ELSE IF hits = <<>> THEN [err |-> ErrNotFound("not found"), tbl |-> tbl]
        ELSE [err |-> NoErr, tbl |-> removeAt(tbl, hits[1])]

\* DeleteAll (lines 365-382): c.RemoveAll(filter) removes every document
\* that matches, and none is no error.
mongoDeleteAll(tbl, f, def) ==
    LET conv == stringToObjectID(f, def)
        hits == mongoFind(tbl, conv.filter)
        pos  == positionsFrom({i \in 1..Len(tbl) : \A k \in 1..Len(hits) : hits[k] # i},
                             1, Len(tbl))
    IN  IF conv.err # NoErr THEN [err |-> ErrInvalidInput(conv.err.msg), tbl |-> tbl]
        ELSE IF unknownOperator(conv.filter)
             THEN [err |-> Errorf("unknown operator: $pattern"), tbl |-> tbl]
        ELSE [err |-> NoErr, tbl |-> [k \in 1..Len(pos) |-> tbl[pos[k]]]]

(***************************************************************************)
(* The Repository as its callers see it.                                   *)
(***************************************************************************)
\* The definitions a repository is built with: the engine; enableTTL and
\* the hash key for the wide-column store; IsCustomID and the attribute
\* with a unique index for the document store.
Definitions ==
    {[engine |-> "dynamodb", enableTTL |-> c[1], hashKey |-> c[2],
      customID |-> FALSE, unique |-> "none"] :
         c \in {<<FALSE, "id">>, <<TRUE, "id">>, <<FALSE, "value">>}}
    \cup
    {[engine |-> "mongodb", enableTTL |-> FALSE, hashKey |-> "none",
      customID |-> c[1], unique |-> c[2]] :
         c \in {<<FALSE, "none">>, <<FALSE, "value">>, <<TRUE, "id">>}}

\* the identifier generated n-th: a uuid, or an ObjectId
newId(def, n) == IF def.engine = "dynamodb" THEN <<"u", n>> ELSE <<"o", n>>

\* the objects handed to Save for a create: all attributes of the caller's
\* type, the identifier set by hand or not
CreateObjects == {[oid |-> Absent, id |-> i, value |-> v] :
                      i \in {Absent, CallerId}, v \in Vals}
\* ... and for an update: a map that may leave attributes out and, for the
\* document store, may carry an "_id"
UpdateObjects(def) ==
    ({[oid |-> Absent, id |-> i, value |-> v] :
          i \in {Absent, CallerId}, v \in {<<"b", "a">>, Absent}}
     \ {[oid |-> Absent, id |-> Absent, value |-> Absent]})
    \cup (IF def.engine = "mongodb"
          THEN {[oid |-> <<"o", 0>>, id |-> Absent, value |-> <<"b", "a">>]}
          ELSE {})

\* the limits and offsets the callers of GetAll use: none, or one record
Pages == {0, 1}

\* the filters the callers use: on the value, or on an identifier
CallFilters(def) == Filters({CallerId, newId(def, 1)})

\* rret: the operation, its arguments, the error and the records it
\* returned, the time of the call and the table before and after it; it is
\* kept until the clock or the store moves on
NoRRet == [op |-> "none", rev |-> "none", filter |-> NoFilter, obj |-> NoRecord, limit |-> 0,
           offset |-> 0, err |-> NoErr, out |-> <<>>, at |-> 0, seen |-> <<>>,
           after |-> <<>>, left |-> NoFilter, first |-> NoFilter, pages |-> 0]

\* The caller's filter after a call.  A Filter is a Go map, which the
\* callee shares with its caller: what stringToObjectID takes out of it or
\* puts into it (helper.go:93-101) the caller sees.  The MongoCollection
\* calls it in GetOne, GetAll, DeleteOne and DeleteAll, and in Save with a
\* filter (mongodb.go:168, 204, 314, 348, 368).
callerFilter(f, def) ==
    IF def.engine = "mongodb" /\ ~f.nil THEN stringToObjectID(f, def).filter ELSE f

\* the object as rret keeps it
asRecord(obj) == [oid |-> obj.oid, id |-> obj.id, value |-> obj.value, exp |-> Absent]

\* Save(object, filter) of either engine.
Save ==
    \E obj \in CreateObjects \cup UpdateObjects(repoDef),
       f \in {NilFilter} \cup CallFilters(repoDef),
       pos \in 1..(Len(table) + 1) :
        /\ IF f = NilFilter /\ repoDef.engine = "dynamodb" THEN TRUE ELSE pos = Len(table) + 1
        /\ IF f = NilFilter
           THEN obj \in CreateObjects /\ nextId < MaxRecords /\ Len(table) < MaxRecords
           ELSE obj \in UpdateObjects(repoDef)
        /\ LET id  == newId(repoDef, nextId + 1)
               res == IF repoDef.engine = "dynamodb"
                      THEN IF f = NilFilter THEN dynCreate(table, obj, repoDef, now, id, pos)
                           ELSE dynUpdate(table, obj, f, repoDef, now)
                      ELSE IF f = NilFilter THEN mongoCreate(table, obj, repoDef, id)
                           ELSE mongoUpdate(table, obj, f, repoDef)
           IN  /\ table' = res.tbl
               /\ nextId' = IF f = NilFilter THEN nextId + 1 ELSE nextId
               /\ rret' = [NoRRet EXCEPT !.op = "Save", !.filter = f, !.left = callerFilter(f, repoDef),
                                         !.obj = asRecord(obj), !.err = res.err,
                                         !.out = res.out, !.at = now,
                                         !.seen = table, !.after = res.tbl]
        /\ UNCHANGED <<repoDef, saving, now, tokVars, xVars, patVars, bVars, mVars, aborted>>

\* GetOne(filter, result) of either engine.
GetOne ==
    \E f \in CallFilters(repoDef) :
        /\ LET res == IF repoDef.engine = "dynamodb"
                      THEN dynGetOne(table, f, repoDef, now)
                      ELSE mongoGetOne(table, f, repoDef)
           IN  rret' = [NoRRet EXCEPT !.op = "GetOne", !.filter = f, !.left = callerFilter(f, repoDef),
                                      !.err = res.err, !.out = res.out, !.at = now,
                                      !.seen = table, !.after = table]
        /\ UNCHANGED <<repoDef, saving, table, now, nextId, tokVars, xVars, patVars, bVars, mVars, aborted>>

\* GetAll(filter, resultsTypeHint, "", "", limit, offset) of either engine.
GetAll ==
    \E f \in {NoFilter} \cup CallFilters(repoDef),
       limit \in Pages, offset \in Pages :
        /\ \E res \in IF repoDef.engine = "dynamodb"
                       THEN {[err |-> NoErr,
                              out |-> dynGetAll(table, f, repoDef, now, limit, offset, byPage)] :
                                 byPage \in BOOLEAN}
                       ELSE {mongoGetAll(table, f, repoDef, limit, offset)} :
               rret' = [NoRRet EXCEPT !.op = "GetAll", !.filter = f, !.left = callerFilter(f, repoDef), !.limit = limit,
                                      !.offset = offset, !.err = res.err,
                                      !.out = res.out, !.at = now, !.seen = table,
                                      !.after = table]
        /\ UNCHANGED <<repoDef, saving, table, now, nextId, tokVars, xVars, patVars, bVars, mVars, aborted>>

\* DeleteOne(filter) of either engine.
DeleteOne ==
    \E f \in CallFilters(repoDef) :
        /\ LET res == IF repoDef.engine = "dynamodb"
                      THEN dynDeleteOne(table, f, repoDef, now)
                      ELSE mongoDeleteOne(table, f, repoDef)
           IN  /\ table' = res.tbl
               /\ rret' = [NoRRet EXCEPT !.op = "DeleteOne", !.filter = f, !.left = callerFilter(f, repoDef),
                                         !.err = res.err, !.at = now,
                                         !.seen = table, !.after = res.tbl]
        /\ UNCHANGED <<repoDef, saving, now, nextId, tokVars, xVars, patVars, bVars, mVars, aborted>>

\* the filters of the callers of the DeleteAll of dynamodb.go: the hash
\* keys of the items as a list
KeyFilters(def) ==
    IF def.engine # "dynamodb" THEN {}
    ELSE IF def.hashKey = "id"
         THEN {[NoFilter EXCEPT !.id = <<"keys", ks>>] :
                   ks \in {<<newId(def, 1)>>, <<newId(def, 1), newId(def, 2)>>}}
         ELSE {[NoFilter EXCEPT !.value = <<"keys", <<<<"a", "a">>>>>>]}

\* DeleteAll(filter): of the MongoCollection, and of the DynamoCollection
\* in its two revisions, the batch write of dynamodb.go ("batch") and the
\* loop over GetAll of src/unnamed/part_002 ("paged").
DeleteAll ==
    \E f \in {NoFilter} \cup CallFilters(repoDef) \cup KeyFilters(repoDef),
       rev \in {"batch", "paged", "none"} :
        /\ (rev = "none") = (repoDef.engine = "mongodb")
        /\ \E res \in CASE rev = "batch" -> {dynDeleteAllKeys(table, f, repoDef)}
                        [] rev = "paged" -> {dynDeleteAll(table, f, repoDef, now, byPage) :
                                                 byPage \in BOOLEAN}
                        [] OTHER -> {mongoDeleteAll(table, f, repoDef)} :
               /\ table' = res.tbl
               /\ rret' = [NoRRet EXCEPT !.op = "DeleteAll", !.rev = rev, !.filter = f,
                                         !.left = callerFilter(f, repoDef),
                                         !.pages = IF rev = "paged" THEN res.pages ELSE 0,
                                         !.err = res.err, !.at = now,
                                         !.seen = table, !.after = res.tbl]
        /\ UNCHANGED <<repoDef, saving, now, nextId, tokVars, xVars, patVars, bVars, mVars, aborted>>

\* The caller of the last operation on a MongoCollection calls DeleteAll
\* with the filter it passed to that operation, the same map, as the
\* operation left it.  rret.first is the filter as it was before.
DeleteAllAgain ==
    /\ repoDef.engine = "mongodb"
    /\ rret.op \in {"GetOne", "GetAll", "DeleteOne", "DeleteAll", "Save"}
    /\ ~rret.filter.nil
    /\ LET f == rret.left
           res == mongoDeleteAll(table, f, repoDef)
       IN  /\ table' = res.tbl
           /\ rret' = [NoRRet EXCEPT !.op = "DeleteAllAgain", !.filter = f,
                                     !.left = callerFilter(f, repoDef),
                                     !.first = rret.filter,
                                     !.err = res.err, !.at = now,
                                     !.seen = table, !.after = res.tbl]
    /\ UNCHANGED <<repoDef, saving, now, nextId, tokVars, xVars, patVars, bVars, mVars, aborted>>

\* A second passes; the result of the last call is no longer looked at.
\* Without TTL no operation reads the clock.
Tick ==
    /\ repoDef.enableTTL
    /\ now < MaxTime
    /\ now' = now + 1
    /\ rret' = NoRRet
    /\ UNCHANGED <<repoDef, saving, table, nextId, tokVars, xVars, patVars, bVars, mVars, aborted>>

\* The store's own sweep removes one expired item, some time after its
\* expiry (setTTL, dynamodb.go:208-243).
Sweep ==
    /\ repoDef.enableTTL
    /\ \E i \in 1..Len(table) :
           /\ table[i].exp # Absent
           /\ table[i].exp[1] <= now
           /\ table' = SubSeq(table, 1, i - 1) \o SubSeq(table, i + 1, Len(table))
    /\ rret' = NoRRet
    /\ UNCHANGED <<repoDef, saving, now, nextId, tokVars, xVars, patVars, bVars, mVars, aborted>>

\* saving: no Save is between its lookup and its write, or the one that is:
\* its payload, its filter and the item its GetOne returned
NoSaving == [active |-> FALSE, obj |-> NoRecord, filter |-> NoFilter, res |-> NoRecord]

\* The write of Save's update branch (dynamodb.go:392-406): Update(hashKey,
\* res[hashKey]) with a Set for every attribute of the payload but the
\* key, and no condition.  The store's UpdateItem changes the item with
\* that key, and without a condition puts a new item, the key and the
\* attributes set, where no item has the key; pos is its place in the scan.
dynUpdateItem(tbl, key, obj, def, pos) ==
    LET there == {i \in 1..Len(tbl) : dynKey(tbl[i], def) = key}
        fresh == IF def.hashKey = "id" THEN [NoRecord EXCEPT !.id = key]
                 ELSE [NoRecord EXCEPT !.value = key]
    IN  IF there # {}
        THEN LET at == CHOOSE i \in there : TRUE
                 item == dynSet(tbl[at], obj, def)
             IN  [err |-> NoErr, out |-> <<item>>, tbl |-> [tbl EXCEPT ![at] = item]]
        ELSE LET item == dynSet(fresh, obj, def)
             IN  [err |-> NoErr, out |-> <<item>>,
                  tbl |-> SubSeq(tbl, 1, pos - 1) \o <<item>> \o SubSeq(tbl, pos, Len(tbl))]

\* Save(object, filter) of the DynamoCollection with a filter, up to the
\* return of its GetOne (dynamodb.go:382-390): it returns GetOne's error, or
\* goes on with the item found.  Nothing is held while it does: the other
\* callers of the table run between this and the write.
SaveLookup ==
    \E obj \in UpdateObjects(repoDef), f \in CallFilters(repoDef) :
        /\ repoDef.engine = "dynamodb"
        /\ ~saving.active
        /\ LET got == dynGetOne(table, f, repoDef, now)
           IN  IF got.err # NoErr
               THEN /\ rret' = [NoRRet EXCEPT !.op = "Save", !.filter = f, !.left = f,
                                              !.obj = asRecord(obj), !.err = got.err,
                                              !.at = now, !.seen = table, !.after = table]
                    /\ UNCHANGED saving
               ELSE /\ saving' = [active |-> TRUE, obj |-> asRecord(obj), filter |-> f,
                                  res |-> got.out[1]]
                    /\ rret' = NoRRet
        /\ UNCHANGED <<repoDef, table, now, nextId, tokVars, xVars, patVars, bVars, mVars, aborted>>

\* ... and from there to its return (dynamodb.go:392-418): the write, by
\* the key of the item GetOne returned.
SaveWrite ==
    \E pos \in 1..(Len(table) + 1) :
        /\ saving.active
        /\ LET key == dynKey(saving.res, repoDef)
               res == dynUpdateItem(table, key, saving.obj, repoDef, pos)
           IN  /\ (\E i \in 1..Len(table) : dynKey(table[i], repoDef) = key) => pos = Len(table) + 1
               /\ table' = res.tbl
               /\ rret' = [NoRRet EXCEPT !.op = "Save", !.filter = saving.filter,
                                         !.left = saving.filter, !.obj = saving.obj,
                                         !.err = res.err, !.out = res.out, !.at = now,
                                         !.seen = table, !.after = res.tbl]
        /\ saving' = NoSaving
        /\ UNCHANGED <<repoDef, now, nextId, tokVars, xVars, patVars, bVars, mVars, aborted>>

RepoInit ==
    /\ repoDef \in Definitions
    /\ table = <<>>
    /\ now = 0
    /\ nextId = 0
    /\ rret = NoRRet
    /\ saving = NoSaving

\* no repository is in use
RepoParked ==
    /\ repoDef = [engine |-> "none", enableTTL |-> FALSE, hashKey |-> "none",
                  customID |-> FALSE, unique |-> "none"]
    /\ table = <<>>
    /\ now = 0
    /\ nextId = 0
    /\ rret = NoRRet
    /\ saving = NoSaving

RepoNext ==
    Save \/ GetOne \/ GetAll \/ DeleteOne \/ DeleteAll \/ DeleteAllAgain \/ Tick \/ Sweep

(***************************************************************************)
(* What the claims about the repositories expect, in terms of the call     *)
(* kept in rret.                                                           *)
(***************************************************************************)
Range(s) == {s[i] : i \in 1..Len(s)}

\* a stored record as its readers are to see it: on the document store
\* without a custom id, "id" is the hex form of "_id"
Present(rec) ==
    IF repoDef.engine = "mongodb" /\ ~repoDef.customID
    THEN [rec EXCEPT !.id = rec.oid] ELSE rec

\* with TTL enabled a record is visible strictly before its expiry
Live(rec, t) == repoDef.enableTTL => (rec.exp # Absent /\ rec.exp[1] > t)

\* a filter the engine can take: without a custom id, an "id" entry of the
\* document store has to be the hex form of an ObjectId
WellFormed(f) ==
    ~(repoDef.engine = "mongodb" /\ ~repoDef.customID
      /\ f.id # Absent /\ ~IsObjectIdHex(f.id[2]))

\* the visible records of tbl that satisfy f at time t, in stored order
Matches(tbl, f, t) ==
    LET hit == {i \in 1..Len(tbl) : Satisfies(Present(tbl[i]), f) /\ Live(tbl[i], t)}
        pos == positionsFrom(hit, 1, Len(tbl))
    IN  [k \in 1..Len(pos) |-> Present(tbl[pos[k]])]

HasPattern(f) == f.value # Absent /\ f.value[1] = "pattern"

\* C14 (as claimed): GetOne and GetAll read a { $pattern: p } entry as a
\* LIKE match and a plain entry as equality: GetAll without limit and
\* offset returns exactly the stored records that satisfy every entry, and
\* GetOne returns one of them when there is one.
C14_FilterSemantics ==
    LET found == Matches(rret.seen, rret.filter, rret.at)
    IN  WellFormed(rret.filter) =>
            /\ rret.op = "GetAll" /\ rret.limit = 0 /\ rret.offset = 0 =>
                   /\ rret.err = NoErr
                   /\ Range(rret.out) = Range(found)
                   /\ Len(rret.out) = Len(found)
            /\ rret.op = "GetOne" /\ found # <<>> =>
                   /\ rret.err = NoErr
                   /\ rret.out[1] \in Range(found)

\* C15 (as claimed): Save(obj, nil) never overwrites: the identifier the
\* caller supplied is the identifier of the record created, a second create
\* under an identifier already stored fails with AlreadyExists, and the
\* records stored before are all still there, unchanged.
C15_CreateKeepsIdentifier ==
    rret.op = "Save" /\ rret.filter = NilFilter =>
        /\ rret.err = NoErr /\ rret.obj.id # Absent => rret.out[1].id = rret.obj.id
        /\ (rret.obj.id # Absent
            /\ \E i \in 1..Len(rret.seen) : Present(rret.seen[i]).id = rret.obj.id)
               => IsErrAlreadyExistis(rret.err)
        /\ Range(rret.seen) \subseteq Range(rret.after)
        /\ Len(rret.after) >= Len(rret.seen)

\* C15, the part that holds: a create changes and removes no stored record,
\* and one that fails with AlreadyExists adds none.
C15_CreateAddsOnly ==
    rret.op = "Save" /\ rret.filter = NilFilter =>
        /\ Range(rret.seen) \subseteq Range(rret.after)
        /\ Len(rret.after) >= Len(rret.seen)
        /\ rret.err # NoErr => IsErrAlreadyExistis(rret.err) /\ rret.after = rret.seen

\* C16 (as claimed): Save(obj, filter) with a non-nil filter that no record
\* satisfies fails with NotFound and leaves the store as it was.
C16_UpdateNotFound ==
    (/\ rret.op = "Save"
     /\ rret.filter # NilFilter
     /\ WellFormed(rret.filter)
     /\ Matches(rret.seen, rret.filter, rret.at) = <<>>)
    => /\ IsErrNotFound(rret.err)
       /\ rret.after = rret.seen

\* C16, the part that holds: with plain entries only, and on the
\* wide-column store with any filter the code finds nothing for.
C16_EqualityFilters ==
    (/\ rret.op = "Save"
     /\ rret.filter # NilFilter
     /\ WellFormed(rret.filter)
     /\ ~HasPattern(rret.filter)
     /\ Matches(rret.seen, rret.filter, rret.at) = <<>>)
    => /\ IsErrNotFound(rret.err)
       /\ rret.after = rret.seen

\* the attributes a payload may carry besides "_id"
Attrs == {"id", "value", "exp"}
\* the primary-key attributes of the engine: the hash key, or "_id"
KeyAttrs == IF repoDef.engine = "mongodb" THEN {"oid"} ELSE {repoDef.hashKey}

C17_WitnessDocument ==
    /\ rret.op = "Save"
    /\ rret.filter # NilFilter
    /\ rret.err = NoErr
    /\ repoDef.engine = "mongodb"
    /\ rret.obj.oid # Absent
    /\ \E i \in 1..Len(rret.seen) : rret.after[i] # rret.seen[i]

\* C18 (as claimed): GetOne returns a record that satisfies the filter when
\* a visible one exists, and fails with an error that IsErrNotFound accepts
\* when none does.
C18_GetOne ==
    rret.op = "GetOne" /\ WellFormed(rret.filter) =>
        LET found == Matches(rret.seen, rret.filter, rret.at)
        IN  IF found # <<>>
            THEN rret.err = NoErr /\ rret.out[1] \in Range(found)
            ELSE IsErrNotFound(rret.err)

\* C18, the part that holds: the same for filters of plain entries.
C18_EqualityFilters ==
    rret.op = "GetOne" /\ WellFormed(rret.filter) /\ ~HasPattern(rret.filter) =>
        LET found == Matches(rret.seen, rret.filter, rret.at)
        IN  IF found # <<>>
            THEN rret.err = NoErr /\ rret.out[1] \in Range(found)
            ELSE IsErrNotFound(rret.err)

\* C19 (as claimed): with TTL enabled, a record Save creates at time t is
\* stamped with the expiry t + ttl, and no record that GetOne or GetAll
\* returns, the first or a later one, has its expiry at or before the time
\* of the call.
C19_Expiry ==
    repoDef.enableTTL =>
        /\ rret.op = "Save" /\ rret.filter = NilFilter /\ rret.err = NoErr =>
               rret.out[1].exp = <<rret.at + TTLSeconds>>
        /\ rret.op \in {"GetOne", "GetAll"} =>
               \A i \in 1..Len(rret.out) :
                   rret.out[i].exp # Absent /\ rret.out[i].exp[1] > rret.at

\* C19, the part that holds: the stamp of Save, GetOne, and the first
\* record of GetAll.
C19_FirstRecord ==
    repoDef.enableTTL =>
        /\ rret.op = "Save" /\ rret.filter = NilFilter /\ rret.err = NoErr =>
               rret.out[1].exp = <<rret.at + TTLSeconds>>
        /\ rret.op \in {"GetOne", "GetAll"} /\ rret.out # <<>> =>
               rret.out[1].exp # Absent /\ rret.out[1].exp[1] > rret.at

\* what offset and limit leave of a sequence of matches
pageOf(found, limit, offset) ==
    LET to == IF limit # 0 /\ offset + limit < Len(found) THEN offset + limit
              ELSE Len(found)
    IN  [k \in 1..(IF to > offset THEN to - offset ELSE 0) |-> found[offset + k]]

\* C20 (as claimed): GetAll returns only records that satisfy the filter,
\* leaves out exactly the first `offset` of them, returns at most `limit`
\* when limit > 0 and all the rest when limit = 0, and returns whatever
\* remains, without an error, when offset or limit exceed the matches.
C20_Paging ==
    rret.op = "GetAll" /\ WellFormed(rret.filter) =>
        /\ rret.err = NoErr
        /\ rret.out = pageOf(Matches(rret.seen, rret.filter, rret.at),
                             rret.limit, rret.offset)

\* C20, the part that holds: the same on the document store for filters of
\* plain entries.
C20_DocumentStore ==
    (/\ rret.op = "GetAll"
     /\ repoDef.engine = "mongodb"
     /\ WellFormed(rret.filter)
     /\ ~HasPattern(rret.filter))
    => /\ rret.err = NoErr
       /\ rret.out = pageOf(Matches(rret.seen, rret.filter, rret.at),
                            rret.limit, rret.offset)

\* the positions of the visible records of tbl that satisfy f at time t
hitPositions(tbl, f, t) ==
    {i \in 1..Len(tbl) : Satisfies(Present(tbl[i]), f) /\ Live(tbl[i], t)}

\* C21 (as claimed): DeleteOne removes exactly one record, a record that
\* satisfies the filter, and leaves every other record as it was; when no
\* record satisfies the filter it fails with NotFound and removes nothing.
C21_DeleteOne ==
    (rret.op = "DeleteOne" /\ WellFormed(rret.filter)) =>
        LET hit == hitPositions(rret.seen, rret.filter, rret.at)
        IN  IF hit = {}
            THEN IsErrNotFound(rret.err) /\ rret.after = rret.seen
            ELSE rret.err = NoErr /\ \E i \in hit : rret.after = removeAt(rret.seen, i)

\* The part of C21 that holds: the same for filters of plain entries.
C21_EqualityFilters ==
    (rret.op = "DeleteOne" /\ WellFormed(rret.filter) /\ ~HasPattern(rret.filter)) =>
        LET hit == hitPositions(rret.seen, rret.filter, rret.at)
        IN  IF hit = {}
            THEN IsErrNotFound(rret.err) /\ rret.after = rret.seen
            ELSE rret.err = NoErr /\ \E i \in hit : rret.after = removeAt(rret.seen, i)

\* C22 (as claimed): on the wide-column store a DeleteAll that returns
\* without error has deleted every record that satisfies the filter and no
\* record that does not, however many records there are for a batch.
C22_DeleteAll ==
    (rret.op = "DeleteAll" /\ rret.rev = "paged" /\ rret.err = NoErr) =>
        /\ \A i \in hitPositions(rret.seen, rret.filter, rret.at) :
               rret.seen[i] \notin Range(rret.after)
        /\ \A i \in 1..Len(rret.seen) :
               ~Satisfies(rret.seen[i], rret.filter) => rret.seen[i] \in Range(rret.after)

\* C23 (as claimed): on the wide-column store DeleteAll with a filter that
\* does not hold the hash key fails with InvalidInput and leaves the table
\* as it was.
C23_HashKeyRequired ==
    (rret.op = "DeleteAll" /\ repoDef.engine = "dynamodb"
     /\ hashEntry(rret.filter, repoDef) = Absent) =>
        /\ IsErrorOfType(rret.err, ErrInvalidInput(""))
        /\ rret.after = rret.seen

\* The part of C23 that holds: the later revision fails with InvalidInput,
\* and either revision fails and leaves the table as it was.
C23_LaterRevision ==
    (rret.op = "DeleteAll" /\ repoDef.engine = "dynamodb"
     /\ hashEntry(rret.filter, repoDef) = Absent) =>
        /\ rret.rev = "paged" => IsErrorOfType(rret.err, ErrInvalidInput(""))
        /\ rret.err # NoErr
        /\ rret.after = rret.seen

(***************************************************************************)
(* RepositoryDefinitionMap (backends.go:50-83): a map[string]interface{}.  *)
(* A value of the map is the pair of its Go type and its content; a key    *)
(* the map does not hold is Absent.  A type assertion x.(T) on a value of  *)
(* another type panics; the two-valued form x.(T) reports ok = false.      *)
(***************************************************************************)
\* the value an accessor returns, or the panic that ends the call
returns(v) == [panic |-> FALSE, val |-> v]
panics(zero) == [panic |-> TRUE, val |-> zero]

\* GetIndexes (lines 52-62)
GetIndexes(m) ==
    IF m.indexes # Absent /\ m.indexes[1] = "[]interface{}"
    THEN returns(m.indexes[2]) ELSE returns(<<>>)

\* GetName (lines 64-69)
GetName(m) ==
    IF m.name = Absent THEN returns("")
    ELSE IF m.name[1] = "string" THEN returns(m.name[2]) ELSE panics("")

\* EnableTTL (lines 71-76)
EnableTTL(m) ==
    IF m.enableTtl = Absent THEN returns(FALSE)
    ELSE IF m.enableTtl[1] = "bool" THEN returns(m.enableTtl[2]) ELSE panics(FALSE)

\* GetTTL (lines 78-83)
GetTTL(m) ==
    IF m.ttl = Absent THEN returns(0)
    ELSE IF m.ttl[1] = "int64" THEN returns(m.ttl[2]) ELSE panics(0)

\* The definitions callers write: those of README.md:30-63, of
\* backends_test.go:27-42 and of src/unnamed/part_001:72-77, and partial
\* ones.  An untyped constant such as 86400 is an int.
DefinitionMaps ==
    [indexes   : {Absent, <<"[]interface{}", <<>>>>, <<"[]interface{}", <<"email">>>>,
                  <<"[]string", <<"email">>>>, <<"[]Index", <<"token">>>>},
     name      : {Absent, <<"string", "tokens">>, <<"string", "">>},
     enableTtl : {Absent, <<"bool", TRUE>>, <<"bool", FALSE>>},
     ttl       : {Absent, <<"int64", 86400>>, <<"int", 86400>>, <<"int64", 0>>}]

NoDefRet == [op |-> "none", panic |-> FALSE]

\* a caller reads the definition with one of the accessors
ReadIndexes ==
    /\ defRet' = [op |-> "GetIndexes"] @@ GetIndexes(defMap)
    /\ UNCHANGED <<defMap, pVars, tokVars, sVars, patVars, bVars, mVars, aborted>>

ReadName ==
    /\ defRet' = [op |-> "GetName"] @@ GetName(defMap)
    /\ UNCHANGED <<defMap, pVars, tokVars, sVars, patVars, bVars, mVars, aborted>>

ReadEnableTTL ==
    /\ defRet' = [op |-> "EnableTTL"] @@ EnableTTL(defMap)
    /\ UNCHANGED <<defMap, pVars, tokVars, sVars, patVars, bVars, mVars, aborted>>

ReadTTL ==
    /\ defRet' = [op |-> "GetTTL"] @@ GetTTL(defMap)
    /\ UNCHANGED <<defMap, pVars, tokVars, sVars, patVars, bVars, mVars, aborted>>

DefInit ==
    /\ defMap \in DefinitionMaps
    /\ defRet = NoDefRet

\* no definition is being read
DefParked ==
    /\ defMap = [indexes |-> Absent, name |-> Absent, enableTtl |-> Absent, ttl |-> Absent]
    /\ defRet = NoDefRet

DefNext == ReadIndexes \/ ReadName \/ ReadEnableTTL \/ ReadTTL

\* C27 (as claimed): the accessors are total reads.  GetIndexes returns
\* the declared indexes unchanged; for a key the definition lacks the
\* accessors return the empty set, "", false and 0; a declared ttl of
\* 86400 is returned as 86400; and no call ends in a panic.
C27_Accessors ==
    /\ ~defRet.panic
    /\ defRet.op = "GetIndexes" =>
           defRet.val = IF defMap.indexes = Absent THEN <<>> ELSE defMap.indexes[2]
    /\ (defRet.op = "GetName" /\ defMap.name = Absent) => defRet.val = ""
    /\ (defRet.op = "EnableTTL" /\ defMap.enableTtl = Absent) => defRet.val = FALSE
    /\ defRet.op = "GetTTL" =>
           defRet.val = IF defMap.ttl = Absent THEN 0 ELSE defMap.ttl[2]

\* The part of C27 that holds: a key the definition lacks gives the zero
\* value without a panic, and a []interface{} of indexes and an int64 ttl
\* are returned as declared.
C27_ZeroValues ==
    /\ (defRet.op = "GetIndexes" /\ defMap.indexes = Absent) =>
           ~defRet.panic /\ defRet.val = <<>>
    /\ (defRet.op = "GetIndexes" /\ defMap.indexes # Absent
        /\ defMap.indexes[1] = "[]interface{}") => defRet.val = defMap.indexes[2]
    /\ (defRet.op = "GetName" /\ defMap.name = Absent) =>
           ~defRet.panic /\ defRet.val = ""
    /\ (defRet.op = "EnableTTL" /\ defMap.enableTtl = Absent) =>
           ~defRet.panic /\ defRet.val = FALSE
    /\ (defRet.op = "GetTTL" /\ defMap.ttl = Absent) => ~defRet.panic /\ defRet.val = 0
    /\ (defRet.op = "GetTTL" /\ defMap.ttl # Absent /\ defMap.ttl[1] = "int64") =>
           ~defRet.panic /\ defRet.val = defMap.ttl[2]

(***************************************************************************)
(* Provisioning: DefineRepository with the repository builders of the two  *)
(* engines (dynamodb.go:31-72, 108-245; mongodb.go:27-67, 106-160) against *)
(* a remote store.  `remote` lists the tables or collections of the store  *)
(* in the order the store lists them, by name.  The definitions of the     *)
(* model have no range key and at most one index and one GSI.              *)
(***************************************************************************)
\* the backends of one engine a process builds one after the other
Instances == 1..2
\* the name callers define the repository under
RepoName == "r"

\* a table or collection of another service, and the one the definitions
\* name as an earlier run left it
OtherTable == [name |-> "a", hashKey |-> "id", gsi |-> "none", ttlAttr |-> "", indexes |-> {}]
OwnTable == [name |-> "t", hashKey |-> "id", gsi |-> "none", ttlAttr |-> "", indexes |-> {}]

\* the repository definitions callers pass
ProvDefinitions(engine) ==
    {d \in [name : {"", "t"}, hashKey : {"", "id"}, gsi : {"none", "id", "other"},
            index : {"none", "email"}, enableTTL : BOOLEAN,
            ttlAttribute : {"", "exp"}, ttl : {-1, 0, 1}] :
        /\ ~d.enableTTL => (d.ttlAttribute = "" /\ d.ttl = 0)
        /\ engine = "dynamodb" => d.index = "none"
        /\ engine = "mongodb" => (d.hashKey = "" /\ d.gsi = "none")}

\* what a builder returns: the error, the remote store as the calls left
\* it, and the calls it made
provResult(e, rem, cs) == [err |-> e, remote |-> rem, calls |-> cs]

\* the names of a list of tables
tableNames(rem) == [k \in 1..Len(rem) |-> rem[k].name]

\* contains(tableNames, tableName) (dynamodb.go:124)
contains(names, n) == \E k \in 1..Len(names) : names[k] = n

\* svc.ListTables(&dynamodb.ListTablesInput{}) (dynamodb.go:110): one page
\* of the names, the first ListTablesLimit of them; the call asks for no
\* further page.
ListTables(rem) ==
    SubSeq(tableNames(rem), 1, IF Len(rem) < ListTablesLimit THEN Len(rem) ELSE ListTablesLimit)

\* createTable (dynamodb.go:108-209)
createTable(rem, def, down) ==
    IF down THEN provResult(Errorf("RequestError"), rem, <<"ListTables">>)
    ELSE IF contains(ListTables(rem), def.name)
         THEN provResult(NoErr, rem, <<"ListTables">>)
    ELSE IF def.hashKey = ""
         THEN provResult(ErrBackendError("Hash key is missing for table"), rem, <<"ListTables">>)
    ELSE IF def.gsi \notin {"none", def.hashKey}
         THEN provResult(ErrBackendError("GSI must be hash or range key"), rem, <<"ListTables">>)
    ELSE IF contains(tableNames(rem), def.name)
         THEN provResult(Errorf("ResourceInUseException"), rem, <<"ListTables", "CreateTable">>)
    ELSE provResult(NoErr,
                    Append(rem, [name |-> def.name, hashKey |-> def.hashKey, gsi |-> def.gsi,
                                 ttlAttr |-> "", indexes |-> {}]),
                    <<"ListTables", "CreateTable">>)

\* the remote call of setTTL that fails, if any
TTLFailures == {"none", "wait", "update"}

\* setTTL (dynamodb.go:212-245): the table named by the definition gets
\* the TTL attribute.  An error of WaitUntilTableExists ends the function
\* with nil (lines 231-233), and the answer of UpdateTimeToLive is not
\* looked at (line 235).
setTTL(rem, def, fail) ==
    IF ~def.enableTTL THEN provResult(NoErr, rem, <<>>)
    ELSE IF def.ttlAttribute = ""
         THEN provResult(ErrBackendError("TTL attribute is reqired when TTL is enabled"), rem, <<>>)
    ELSE IF def.ttl = 0
         THEN provResult(ErrBackendError("TTL value is missing and must be greater than zero"),
                         rem, <<>>)
    ELSE IF fail = "wait" THEN provResult(NoErr, rem, <<"WaitUntilTableExists">>)
    ELSE IF fail = "update"
         THEN provResult(NoErr, rem, <<"WaitUntilTableExists", "UpdateTimeToLive">>)
    ELSE provResult(NoErr,
                    [k \in 1..Len(rem) |->
                        IF rem[k].name = def.name
                        THEN [rem[k] EXCEPT !.ttlAttr = def.ttlAttribute] ELSE rem[k]],
                    <<"WaitUntilTableExists", "UpdateTimeToLive">>)

\* DynamoDBRepoBuilder (dynamodb.go:31-72), on a backend whose context
\* holds the session and whose configuration names the database
DynamoDBRepoBuilder(rem, def, down, fail) ==
    LET made == createTable(rem, def, down)
        ttl  == setTTL(made.remote, def, fail)
    IN  IF def.name = ""
        THEN provResult(ErrBackendError("table name is missing and required"), rem, <<>>)
        ELSE IF made.err # NoErr THEN made
        ELSE provResult(ttl.err, ttl.remote, made.calls \o ttl.calls)

\* collection.EnsureIndex(index) (mongodb.go:122, 153): the index is added
\* to the collection, which the store makes when it is not there
ensureIndex(rem, name, key) ==
    IF contains(tableNames(rem), name)
    THEN [k \in 1..Len(rem) |->
             IF rem[k].name = name THEN [rem[k] EXCEPT !.indexes = @ \cup {key}] ELSE rem[k]]
    ELSE Append(rem, [name |-> name, hashKey |-> "", gsi |-> "none", ttlAttr |-> "",
                      indexes |-> {key}])

\* PrepareDB (mongodb.go:106-160).  An error of EnsureIndex that is no
\* *mgo.QueryError (the store is down) is returned; whether the server
\* takes a negative expireAfterSeconds is up to the server (strict).
PrepareDB(rem, def, down, strict) ==
    LET idx  == IF def.index = "none" THEN rem ELSE ensureIndex(rem, def.name, def.index)
        c1   == IF def.index = "none" THEN <<>> ELSE <<"EnsureIndex">>
    IN  IF def.index # "none" /\ down
        THEN provResult(Errorf("no reachable servers"), rem, c1)
        ELSE IF ~def.enableTTL THEN provResult(NoErr, idx, c1)
        ELSE IF def.ttlAttribute = ""
             THEN provResult(ErrBackendError("TTL attribute is reqired when TTL is enabled"),
                             idx, c1)
        ELSE IF def.ttl = 0
             THEN provResult(ErrBackendError("TTL value is missing and must be greater than zero"),
                             idx, c1)
        ELSE IF down \/ (def.ttl < 0 /\ strict)
             THEN provResult(Errorf("EnsureIndex"), idx, Append(c1, "EnsureIndex"))
        ELSE provResult(NoErr, ensureIndex(idx, def.name, def.ttlAttribute),
                        Append(c1, "EnsureIndex"))

\* MongoDBRepoBuilder (mongodb.go:27-67), on a backend whose context holds
\* the session and whose configuration names the database
MongoDBRepoBuilder(rem, def, down, strict) ==
    IF def.name = ""
    THEN provResult(ErrBackendError("collection name is missing and required"), rem, <<>>)
    ELSE PrepareDB(rem, def, down, strict)

NoDef == [name |-> "", hashKey |-> "", gsi |-> "none", index |-> "none",
          enableTTL |-> FALSE, ttlAttribute |-> "", ttl |-> 0]
NoPRet == [op |-> "none", backend |-> 0, hit |-> FALSE, down |-> FALSE,
           ttlFail |-> "none", err |-> NoErr,
           calls |-> <<>>, before |-> <<>>, after |-> <<>>, cached |-> FALSE,
           def |-> NoDef]

\* DefineRepository(RepoName, def) on a backend, without other callers
\* (backends.go:96-114): a name the backend holds is returned as it is;
\* otherwise the builder provisions and the repository is kept when the
\* builder returned no error.  pret.def is the definition of the call.  A
\* failing call of setTTL is chosen only for calls that reach it.
DefineRepository(b) ==
    \E def \in ProvDefinitions(pEngine), down \in BOOLEAN, strict \in BOOLEAN,
       fail \in TTLFailures :
        /\ pEngine = "dynamodb" => strict
        /\ pcache[b] => (~down /\ strict)
        /\ fail # "none" => (pEngine = "dynamodb" /\ ~down /\ ~pcache[b]
                             /\ def.enableTTL /\ def.name # ""
                             /\ def.ttlAttribute # "" /\ def.ttl # 0
                             /\ createTable(remote, def, down).err = NoErr)
        /\ LET built == IF pEngine = "dynamodb"
                        THEN DynamoDBRepoBuilder(remote, def, down, fail)
                        ELSE MongoDBRepoBuilder(remote, def, down, strict)
               res == IF pcache[b] THEN provResult(NoErr, remote, <<>>) ELSE built
           IN  /\ remote' = res.remote
               /\ pcache' = [pcache EXCEPT ![b] = @ \/ res.err = NoErr]
               /\ pret' = [op |-> "DefineRepository", backend |-> b, hit |-> pcache[b],
                           down |-> down, ttlFail |-> fail, err |-> res.err,
                           calls |-> res.calls,
                           before |-> remote, after |-> res.remote,
                           cached |-> pcache[b] \/ res.err = NoErr, def |-> def]
        /\ UNCHANGED <<pEngine, defVars, tokVars, sVars, patVars, bVars, mVars, aborted>>

ProvInit ==
    /\ pEngine \in {"dynamodb", "mongodb"}
    /\ remote \in {<<>>, <<OtherTable>>, <<OwnTable>>, <<OtherTable, OwnTable>>}
    /\ pcache = [b \in Instances |-> FALSE]
    /\ pret = NoPRet

\* no repository is being provisioned
ProvParked ==
    /\ pEngine = "none"
    /\ remote = <<>>
    /\ pcache = [b \in Instances |-> FALSE]
    /\ pret = NoPRet

ProvNext == \E b \in Instances : DefineRepository(b)

\* a call of DefineRepository that reached the builder
provisioned == pret.op = "DefineRepository" /\ ~pret.hit

\* C24 (as claimed): with enableTTL, DefineRepository succeeds only when
\* ttlAttribute is not empty and ttl is positive; otherwise it fails on
\* both engines and no repository is cached.
C24_TTLValidated ==
    (provisioned /\ pret.def.enableTTL
     /\ (pret.def.ttlAttribute = "" \/ pret.def.ttl <= 0)) =>
        pret.err # NoErr /\ ~pret.cached

\* The part of C24 that holds: an empty ttlAttribute and a ttl of zero
\* fail on both engines, and nothing is cached.
C24_MissingOrZero ==
    (provisioned /\ pret.def.enableTTL
     /\ (pret.def.ttlAttribute = "" \/ pret.def.ttl = 0)) =>
        pret.err # NoErr /\ ~pret.cached

\* a definition the wide-column builder has to refuse
badDefinition(def) == def.name = "" \/ def.hashKey = "" \/ def.gsi \notin {"none", def.hashKey}

\* C25 (as claimed): on the wide-column store DefineRepository fails, with
\* a BackendError or InvalidInput when the store answers, and caches
\* nothing whenever the definition has no name, no hash key or a GSI on a
\* field that is no key, whatever tables the store holds.
C25_BadDefinitionFails ==
    (provisioned /\ pEngine = "dynamodb" /\ badDefinition(pret.def)) =>
        /\ pret.err # NoErr
        /\ ~pret.cached
        /\ ~pret.down => (ErrorClasses \cap {pret.err.class}) # {}

\* The part of C25 that holds: the same when the table is not among the
\* names the store lists.
C25_NoSuchTable ==
    (provisioned /\ pEngine = "dynamodb" /\ badDefinition(pret.def)
     /\ ~contains(ListTables(pret.before), pret.def.name)) =>
        /\ pret.err # NoErr
        /\ ~pret.cached
        /\ ~pret.down => pret.err.class = "BackendError"

\* what provisioning is to leave alone in a table or collection that is
\* there: its keys and its indexes, the TTL attribute aside
schema(rem, def) ==
    [k \in 1..Len(rem) |-> [name |-> rem[k].name, hashKey |-> rem[k].hashKey,
                            gsi |-> rem[k].gsi,
                            indexes |-> rem[k].indexes \ {def.ttlAttribute}]]

\* a definition whose TTL fields pass
ttlPasses(def) == def.enableTTL => (def.ttlAttribute # "" /\ def.ttl > 0)

\* C26 (as claimed): when the table or collection the definition names is
\* there, DefineRepository makes no create-table call, leaves its schema
\* as it is and succeeds; so two fresh backends, one after the other, make
\* the table once.
C26_Idempotent ==
    (provisioned /\ ~pret.down /\ ttlPasses(pret.def)
     /\ contains(tableNames(pret.before), pret.def.name)) =>
        /\ pret.err = NoErr
        /\ ~contains(pret.calls, "CreateTable")
        /\ schema(pret.after, pret.def) = schema(pret.before, pret.def)

\* The part of C26 that holds: the same on the wide-column store when the
\* table is among the names the store lists, and on the document store
\* when the collection holds the index of the definition.
C26_Listed ==
    (provisioned /\ ~pret.down /\ ttlPasses(pret.def)
     /\ contains(tableNames(pret.before), pret.def.name)
     /\ IF pEngine = "dynamodb" THEN contains(ListTables(pret.before), pret.def.name)
        ELSE \A k \in 1..Len(pret.before) :
                 pret.before[k].name = pret.def.name =>
                     {pret.def.index} \ {"none"} \subseteq pret.before[k].indexes) =>
        /\ pret.err = NoErr
        /\ ~contains(pret.calls, "CreateTable")
        /\ schema(pret.after, pret.def) = schema(pret.before, pret.def)

\* the goroutines inside an assignment to one of the manager's maps
backendsWriting == {p \in Procs : mpc[p] = "gb_storing"}
buildersWriting == {p \in Procs : mpc[p] = "sb_builders"}
propsWriting == {p \in Procs : mpc[p] = "sb_props"}

\* the goroutines inside an assignment to the Backend's repository map, or
\* to its context
repositoriesWriting == {p \in Procs : bpc[p] = "dr_storing"}
ctxWriting == {p \in Procs : bpc[p] = "sc_storing"}

\* C28: every write to the manager's builder, properties and backend maps is
\* made by a goroutine that holds the manager's mutex, and so no two
\* goroutines are ever writing the same map at the same time.
C28_ManagerWritesLocked ==
    /\ \A p \in backendsWriting \cup buildersWriting \cup propsWriting : mmutex = p
    /\ Cardinality(backendsWriting) <= 1
    /\ Cardinality(buildersWriting) <= 1
    /\ Cardinality(propsWriting) <= 1

\* The part of C28 that holds of the manager: m.backends is written holding
\* the mutex, by one goroutine at a time.
C28_BackendsMapLocked ==
    /\ \A p \in backendsWriting : mmutex = p
    /\ Cardinality(backendsWriting) <= 1

\* The part of C28 that holds of a Backend: its repository map and its
\* context are written holding its mutex, by one goroutine at a time.
C28_BackendWritesLocked ==
    /\ \A p \in repositoriesWriting \cup ctxWriting : bmutex = p
    /\ Cardinality(repositoriesWriting \cup ctxWriting) <= 1

\* C29: a call for a name that is already defined never waits for the
\* Backend's mutex and completes with the cached instance: no goroutine
\* stands at the Lock of line 101 having been called for a name that was
\* defined, no such call ends in the runtime's abort, and a DefineRepository
\* or GetRepository that returns for a defined name returns its instance.
C29_NoWaitWhenDefined ==
    /\ \A p \in Procs : bpc[p] = "dr_lock" => bcall[p].seen = 0
    /\ (bret.op \in {"DefineRepository", "GetRepository"} /\ bret.seen # 0) =>
           (bret.err = NoErr /\ bret.repo = bret.seen)

\* The part of C29 that holds: while no goroutine is inside the assignment
\* of line 112, a call for a defined name does not go to the Lock, whoever
\* holds the mutex.
C29_NoWaitOutsideStore ==
    [][\A p \in Procs :
          (bpc[p] = "idle" /\ bpc'[p] = "dr_lock" /\ repoWriters(p) = {}) =>
              repositories[bcall'[p].name] = 0]_vars

\* C30: each call of Shutdown invokes the cleanup callback once when the
\* Backend has one, and nothing when it is nil, so a second Shutdown invokes
\* it a second time; Shutdown changes neither the Backend's repository map
\* nor the manager's maps; whatever number of Shutdowns has returned, every
\* repository handed out is still cached, a GetRepository for a cached name
\* returns the cached instance without error, the backend GetBackend handed
\* out is still the manager's entry and a GetBackend that returns after a
\* Shutdown returns that entry from the first lookup, the builder having
\* been invoked successfully once.
C30_Shutdown ==
    /\ [](cleanups = IF cleanupFn = Nil THEN 0 ELSE shutdowns)
    /\ [](\A n \in Names : handed[n] # {} => handed[n] = {repositories[n]})
    /\ []((bret.op = "GetRepository" /\ bret.seen # 0) =>
              (bret.repo = bret.seen /\ bret.err = NoErr))
    /\ [](\A t \in Types : given[t] # {} =>
              (given[t] = {backends[t]} /\ mbuilds[t].ok = 1))
    /\ [][shutdowns' # shutdowns =>
              /\ shutdowns' = shutdowns + 1
              /\ bret'.op = "Shutdown"
              /\ repositories' = repositories
              /\ ctx' = ctx
              /\ rbuilds' = rbuilds
              /\ mVars' = mVars]_vars
    /\ [][(shutdowns > 0 /\ mret' # mret /\ mret'.op = "GetBackend") =>
              /\ mret'.path = "fast"
              /\ mret'.backend = backends[mret'.type]
              /\ mbuilds' = mbuilds]_vars

\* Shutdown has returned twice on a Backend with a cleanup callback, which
\* has been invoked twice; after it GetRepository has returned a repository
\* defined before, and the manager still holds the Backend it handed out.
C30_Witness ==
    /\ shutdowns = 2
    /\ cleanupFn # Nil
    /\ cleanups = 2
    /\ bret.op = "GetRepository"
    /\ bret.repo # 0
    /\ rbuilds[bret.name].ok = 1
    /\ mret.op = "GetBackend"
    /\ mret.path = "fast"
    /\ mret.backend \in given["mongodb"]

\* the names for which the builder returns an error in this step
failingNow == {n \in Names : rbuilds'[n].failed # rbuilds[n].failed}

\* C31: a DefineRepository whose builder fails returns the builder's error
\* and no repository, leaves the repository map as it was, with no entry
\* for the name, and releases the mutex; a name has an entry only after a
\* successful builder invocation, and a GetRepository for a name whose
\* builder has never succeeded returns an error; the mutex is only ever held
\* by a goroutine inside its locked section, and a goroutine that waits for
\* the mutex gets past the Lock, unless the runtime ends the process.
C31_BuilderError ==
    /\ [][\A n \in failingNow :
              /\ bret'.op = "DefineRepository"
              /\ bret'.name = n
              /\ bret'.repo = 0
              /\ bret'.err \in BuilderErrors
              /\ repositories' = repositories
              /\ repositories[n] = 0
              /\ bmutex' = 0]_vars
    /\ [](\A n \in Names : repositories[n] # 0 => rbuilds[n].ok = 1)
    /\ [][(bret' # bret /\ bret'.op = "GetRepository" /\ rbuilds[bret'.name].ok = 0) =>
              (bret'.repo = 0 /\ bret'.err # NoErr)]_vars
    /\ [](bmutex # 0 => bpc[bmutex] \in {"dr_build", "dr_storing"})
    /\ \A p \in Procs : (bpc[p] = "dr_lock") ~> (bpc[p] # "dr_lock" \/ aborted)

\* After the builder failed once for a name, a later DefineRepository has
\* invoked it again, with success, and has returned the repository,
\* unlocking, while another goroutine stands at the Lock.
C31_Witness ==
    /\ bret.op = "DefineRepository"
    /\ bret.built
    /\ bret.repo # 0
    /\ rbuilds[bret.name].failed = 1
    /\ rbuilds[bret.name].ok = 1
    /\ repositories[bret.name] = bret.repo
    /\ bmutex = 0
    /\ \E q \in Procs : bpc[q] = "dr_lock"

\* the types whose builder returns an error in this step
backendFailingNow == {t \in Types : mbuilds'[t].failed # mbuilds[t].failed}

\* C32: for a type without a configuration (no entry, or a nil one) the
\* builder is never invoked and nothing is ever cached; a GetBackend for
\* such a type, registered, returns "backend not configured" and no
\* backend; a GetBackend whose builder fails returns the builder's error and
\* no backend.  Both leave m.backends and the registration as they were,
\* with no entry for the type, and the mutex free; an entry exists only
\* after a successful build.
C32_BuildFailure ==
    /\ [](\A t \in Types : dbConfig[t] # "info" =>
              (mbuilds[t].ok = 0 /\ mbuilds[t].failed = 0 /\ backends[t] = 0))
    /\ [](\A t \in Types : backends[t] # 0 => mbuilds[t].ok = 1)
    /\ [][(mret' # mret /\ mret'.op = "GetBackend"
           /\ backendBuilders[mret'.type] # None /\ dbConfig[mret'.type] # "info") =>
              /\ mret'.err = Errorf("backend not configured")
              /\ mret'.backend = 0
              /\ mbuilds' = mbuilds
              /\ backends' = backends
              /\ backendBuilders' = backendBuilders
              /\ mmutex' = 0]_vars
    /\ [][\A t \in backendFailingNow :
              /\ mret'.op = "GetBackend"
              /\ mret'.type = t
              /\ mret'.err \in BackendBuilderErrors
              /\ mret'.backend = 0
              /\ backends' = backends
              /\ backends[t] = 0
              /\ backendBuilders' = backendBuilders
              /\ backendBuilders[t] # None
              /\ mmutex' = 0]_vars

\* GetBackend has just failed for "dynamodb", registered and without a
\* configuration, and for "mongodb" the builder has failed once and a later
\* GetBackend has built the backend.
C32_Witness ==
    /\ mret.op = "GetBackend"
    /\ mret.type = "dynamodb"
    /\ mret.err = Errorf("backend not configured")
    /\ backendBuilders["dynamodb"] # None
    /\ dbConfig["dynamodb"] # "info"
    /\ mbuilds["dynamodb"].ok = 0
    /\ mbuilds["mongodb"].failed = 1
    /\ mbuilds["mongodb"].ok = 1
    /\ backends["mongodb"] # 0
    /\ mmutex = 0

\* C34: while a goroutine is inside the assignment to a Backend's repository
\* map or to its context, no other goroutine can make the unlocked read of
\* that map (the first lookup of DefineRepository, GetRepository) or of the
\* context (GetFromContext).
C34_NoReadDuringWrite ==
    \A p \in Procs :
       /\ repoWriters(p) # {} => (~ENABLED DefineFast(p) /\ ~ENABLED GetRepository(p))
       /\ ctxWriters(p) # {} => ~ENABLED GetFromContext(p)

\* C35: a DefineRepository on the wide-column engine that returns an error
\* has created no table: the store holds the tables it held before.
C35_AllOrNothing ==
    (provisioned /\ pEngine = "dynamodb" /\ pret.err # NoErr) =>
        tableNames(pret.after) = tableNames(pret.before)

\* The part of C35 that holds: the same for the errors found before the
\* table is made, which are all but those of the TTL settings.
C35_BeforeCreate ==
    (provisioned /\ pEngine = "dynamodb" /\ pret.err # NoErr
     /\ ~(pret.def.enableTTL /\ (pret.def.ttlAttribute = "" \/ pret.def.ttl = 0))) =>
        tableNames(pret.after) = tableNames(pret.before)

\* C36: after a DefineRepository that succeeds on the wide-column engine
\* for a definition with enableTTL, the table of the definition has the
\* TTL attribute of the definition set at the store.
C36_TTLActivated ==
    (provisioned /\ pEngine = "dynamodb" /\ pret.err = NoErr /\ pret.def.enableTTL) =>
        \E k \in 1..Len(pret.after) :
            /\ pret.after[k].name = pret.def.name
            /\ pret.after[k].ttlAttr = pret.def.ttlAttribute

\* The part of C36 that holds: the same when WaitUntilTableExists and
\* UpdateTimeToLive succeed.
C36_WhenCallsSucceed ==
    (provisioned /\ pEngine = "dynamodb" /\ pret.err = NoErr /\ pret.def.enableTTL
     /\ pret.ttlFail = "none") =>
        \E k \in 1..Len(pret.after) :
            /\ pret.after[k].name = pret.def.name
            /\ pret.after[k].ttlAttr = pret.def.ttlAttribute

\* a filter whose id the document store's conversion refuses
badId(f, def) == ~def.customID /\ ~f.nil /\ f.id # Absent /\ ~IsObjectIdHex(f.id[2])

\* C37: an operation of the document store that fails because the id of
\* the filter is no ObjectId leaves the caller's filter as it was, and a
\* DeleteAll called again with that filter fails again and deletes nothing.
C37_FilterKept ==
    (repoDef.engine = "mongodb") =>
       /\ (rret.op \in {"GetOne", "GetAll", "DeleteOne", "DeleteAll", "Save"}
           /\ badId(rret.filter, repoDef)) =>
              (rret.err # NoErr /\ rret.left = rret.filter)
       /\ (rret.op = "DeleteAllAgain" /\ badId(rret.first, repoDef)) =>
              (rret.err # NoErr /\ rret.after = rret.seen)

\* The part of C37 that holds: the operation called with such a filter
\* fails and leaves the collection as it was.
C37_FirstCallFails ==
    (repoDef.engine = "mongodb"
     /\ rret.op \in {"GetOne", "GetAll", "DeleteOne", "DeleteAll", "Save"}
     /\ badId(rret.filter, repoDef)) =>
        (rret.err # NoErr /\ rret.after \in {rret.seen, <<>>})

\* C38: on the wide-column store a Save with a filter never adds a record
\* to the table, whatever the other callers do between its lookup and its
\* write: when the record its GetOne found has been deleted by then, the
\* write does not create one from the payload.
C38_SaveNeverAdds ==
    (repoDef.engine = "dynamodb" /\ rret.op = "Save" /\ ~rret.filter.nil) =>
        Len(rret.after) <= Len(rret.seen)

\* The part of C38 that holds: the write of a Save whose record is still
\* in the table changes that record and adds none.
C38_WhenStillThere ==
    (repoDef.engine = "dynamodb" /\ rret.op = "Save" /\ ~rret.filter.nil
     /\ rret.err = NoErr
     /\ \E i \in 1..Len(rret.seen) :
            dynKey(rret.seen[i], repoDef) = dynKey(rret.out[1], repoDef)) =>
        Len(rret.after) = Len(rret.seen)

\* C39 (as claimed): with no other caller writing, DeleteAll comes to an
\* end: the loop of the wide-column store asks for no more batches than
\* the table has records, and one more, which is empty; and on either
\* store a DeleteAll whose filter (with the hash key in it) no record
\* satisfies returns without error and leaves the table as it was.
C39_DeleteAllEnds ==
    (rret.op = "DeleteAll" /\ rret.rev # "batch") =>
        /\ rret.pages <= Len(rret.seen) + 1
        /\ (WellFormed(rret.filter)
            /\ (repoDef.engine = "dynamodb" => hashEntry(rret.filter, repoDef) # Absent)
            /\ hitPositions(rret.seen, rret.filter, rret.at) = {}) =>
               (rret.err = NoErr /\ rret.after = rret.seen)

\* The part of C39 that holds: the loop ends within that many batches,
\* every batch but the last deleting a record; and a DeleteAll whose filter
\* no record satisfies returns without error and leaves the table as it
\* was, on the wide-column store always and on the document store when
\* the filter has no pattern directive.
C39_WithoutPattern ==
    (rret.op = "DeleteAll" /\ rret.rev # "batch") =>
        /\ rret.pages <= Len(rret.seen) + 1
        /\ (rret.rev = "paged" /\ rret.err = NoErr /\ rret.pages > 0) =>
               Len(rret.after) <= Len(rret.seen) - (rret.pages - 1)
        /\ (WellFormed(rret.filter)
            /\ (repoDef.engine = "dynamodb" => hashEntry(rret.filter, repoDef) # Absent)
            /\ (repoDef.engine = "mongodb" => ~HasPattern(rret.filter))
            /\ hitPositions(rret.seen, rret.filter, rret.at) = {}) =>
               (rret.err = NoErr /\ rret.after = rret.seen)

\* One caller of a manager and of the Backend the manager builds for
\* "mongodb", which is configured: the Backend, constructed on
\* context.Background(), is used once GetBackend has handed it out.
ShutdownInit ==
    /\ ManagerInitOneType
    /\ dbConfig["mongodb"] = "info"
    /\ BackendInit
    /\ ctx = <<>>

\* the calls on the Backend that Shutdown is followed through
ShutdownBackendStep(p) ==
    \/ DefineFast(p)
    \/ DefineLock(p)
    \/ DefineBuild(p)
    \/ DefineStore(p)
    \/ GetRepository(p)
    \/ Shutdown(p)

\* the calls on the manager that Shutdown is followed through
ShutdownManagerStep(p) ==
    \/ SupportBackendBegin(p)
    \/ SupportBackendBuilders(p)
    \/ SupportBackendProps(p)
    \/ GetBackendFast(p)
    \/ GetBackendLock(p)
    \/ GetBackendLookup(p)
    \/ GetBackendBuild(p)
    \/ GetBackendStore(p)

ShutdownNext ==
    \/ ShutdownManagerStep(1)
    \/ given["mongodb"] # {} /\ ShutdownBackendStep(1)

\* the goroutines whose builder invocation is in progress: on the Backend,
\* on the second Backend, and in the manager
repoBuilding == {p \in Procs : bpc[p] = "dr_build"}
repoBuilding2 == {p \in Procs : bpc2[p] = "dr_build"}
backendBuilding == {p \in Procs : mpc[p] = "gb_build"}

\* C33: at most one repository-builder invocation is in progress on each
\* Backend and at most one backend-builder invocation in the manager, each
\* made holding the mutex of its object; and a goroutine at the Lock of a
\* Backend whose mutex is free can take it, and a builder invocation can
\* return, whatever another goroutine holds or builds on the other Backend
\* or in the manager.
C33_OneBuilderAtATime ==
    /\ Cardinality(repoBuilding) <= 1
    /\ Cardinality(repoBuilding2) <= 1
    /\ Cardinality(backendBuilding) <= 1
    /\ \A p \in repoBuilding : bmutex = p
    /\ \A p \in repoBuilding2 : bmutex2 = p
    /\ \A p \in backendBuilding : mmutex = p
    /\ ~aborted =>
          \A p \in Procs :
             /\ (bpc[p] = "dr_lock" /\ bmutex = 0) => ENABLED DefineLock(p)
             /\ (bpc2[p] = "dr_lock" /\ bmutex2 = 0) => ENABLED DefineLock2(p)
             /\ bpc[p] = "dr_build" => ENABLED DefineBuild(p)
             /\ bpc2[p] = "dr_build" => ENABLED DefineBuild2(p)

\* Two builder invocations are in progress at once, one on each Backend,
\* for different names, and a goroutine has taken the second Backend's
\* mutex while the first Backend's was held.
C33_Witness ==
    \E p, q \in Procs :
       /\ p # q
       /\ bpc[p] = "dr_build" /\ bmutex = p
       /\ bpc2[q] = "dr_build" /\ bmutex2 = q
       /\ bcall[p].name # bcall2[q].name

\* Goroutines that each make one call at a time: on a manager, with one
\* configured type, or, where nobody calls the manager (callTypes is
\* empty), on one of two Backends.
BuildersStep(p) ==
    \/ /\ callTypes = {} /\ bpc2[p] = "idle"
       /\ (DefineFast(p) \/ DefineLock(p) \/ DefineBuild(p) \/ DefineStore(p))
    \/ /\ callTypes = {} /\ bpc[p] = "idle"
       /\ (DefineFast2(p) \/ DefineLock2(p) \/ DefineBuild2(p) \/ DefineStore2(p))
    \/ ShutdownManagerStep(p)

BuildersNext == \E p \in Procs : BuildersStep(p)

\* a manager and two Backends as constructed, the callers naming "mongodb"
\* to the manager or not calling it
BuildersInit ==
    /\ backendBuilders = [t \in Types |-> None]
    /\ backendProps = [t \in Types |-> None]
    /\ backends = [t \in Types |-> 0]
    /\ dbConfig = [t \in Types |-> IF t = "mongodb" THEN "info" ELSE "missing"]
    /\ callTypes \in {{}, {"mongodb"}}
    /\ mmutex = 0
    /\ mpc = [p \in Procs |-> "idle"]
    /\ mcall = [p \in Procs |-> NoMCall]
    /\ mret = NoMRet
    /\ mbuilds = [t \in Types |-> [ok |-> 0, failed |-> 0]]
    /\ given = [t \in Types |-> {}]
    /\ everCached = [t \in Types |-> {}]
    /\ BackendParked

InitBuilders == BuildersInit /\ PatParked /\ TokParked /\ RepoParked
    /\ DefParked /\ ProvParked /\ aborted = FALSE

SpecBuilders == InitBuilders /\ [][BuildersNext]_vars

InitShutdown == ShutdownInit /\ PatParked /\ TokParked /\ RepoParked
    /\ DefParked /\ ProvParked /\ aborted = FALSE

SpecShutdown == InitShutdown /\ [][ShutdownNext]_vars

InitBackend == BackendInit /\ PatParked /\ ManagerParked /\ TokParked /\ RepoParked
    /\ DefParked /\ ProvParked /\ aborted = FALSE

InitPattern == PatInit /\ BackendParked /\ ManagerParked /\ TokParked /\ RepoParked
    /\ DefParked /\ ProvParked /\ aborted = FALSE

InitManager == ManagerInitOneType /\ PatParked /\ BackendParked /\ TokParked /\ RepoParked
    /\ DefParked /\ ProvParked /\ aborted = FALSE

InitManagerSeq == ManagerInit /\ PatParked /\ BackendParked /\ TokParked /\ RepoParked
    /\ DefParked /\ ProvParked /\ aborted = FALSE

\* goroutines calling one Backend concurrently
SpecBackend == InitBackend /\ [][BackendNext]_vars

\* one goroutine calling one Backend, call after call
SpecBackendSeq == InitBackend /\ [][BackendSeqNext]_vars

\* goroutines that call DefineRepository and GetRepository on one Backend
DefineStep(p) ==
    \/ DefineFast(p)
    \/ DefineLock(p)
    \/ DefineBuild(p)
    \/ DefineStore(p)
    \/ GetRepository(p)

DefineNext == \E p \in Procs : DefineStep(p)

\* The scheduling the Go runtime gives: a goroutine inside a locked section
\* goes on (the builder returns), and a goroutine blocked in Lock gets the
\* mutex when it is freed again and again (sync.Mutex hands the mutex to a
\* starving waiter).
BackendFairness ==
    \A p \in Procs :
        /\ SF_vars(DefineLock(p))
        /\ WF_vars(DefineBuild(p))
        /\ WF_vars(DefineStore(p))

InitDefine == InitBackend /\ ctx = <<>> /\ cleanupFn = Nil

SpecBackendFair == InitDefine /\ [][DefineNext]_vars /\ BackendFairness

\* the pattern compiler on every pattern
SpecPattern == InitPattern /\ [][PatNext]_vars

\* the wide-column pattern compiler alone
InitTokens == TokInit /\ PatParked /\ BackendParked /\ ManagerParked /\ RepoParked
    /\ DefParked /\ ProvParked /\ aborted = FALSE
SpecTokens == InitTokens /\ [][TokNext]_vars

\* one repository of either engine, its callers acting one at a time
InitRepo == RepoInit /\ PatParked /\ TokParked /\ BackendParked /\ ManagerParked
    /\ DefParked /\ ProvParked /\ aborted = FALSE
SpecRepo == InitRepo /\ [][RepoNext]_vars

\* The callers of one DynamoCollection: they create, update and delete
\* records; an update is one step, or its lookup and its write with the
\* other callers' operations in between.
SaveRaceNext == Save \/ DeleteOne \/ SaveLookup \/ SaveWrite \/ Tick \/ Sweep
InitSaveRace == InitRepo /\ repoDef.engine = "dynamodb"
SpecSaveRace == InitSaveRace /\ [][SaveRaceNext]_vars


\* the accessors of a RepositoryDefinitionMap on the definitions callers write
InitDefinition == DefInit /\ ProvParked /\ RepoParked /\ PatParked /\ TokParked /\ BackendParked
    /\ ManagerParked /\ aborted = FALSE
SpecDefinition == InitDefinition /\ [][DefNext]_vars

\* DefineRepository on the backends of one engine, one call after another
InitProvision == ProvInit /\ DefParked /\ RepoParked /\ PatParked /\ TokParked /\ BackendParked
    /\ ManagerParked /\ aborted = FALSE
SpecProvision == InitProvision /\ [][ProvNext]_vars

\* goroutines calling one manager concurrently
SpecManager == InitManager /\ [][ManagerNext]_vars

\* one goroutine calling one manager, call after call
SpecManagerSeq == InitManagerSeq /\ [][ManagerSeqNext]_vars

(***************************************************************************)
(* Claims about the Backend.                                               *)
(***************************************************************************)
\* C1 (as claimed): when goroutines call DefineRepository concurrently with
\* one name, the builder is invoked exactly once and every caller receives
\* the same Repository instance: whenever such a call has returned, the
\* builder has run exactly once for the name, the caller holds an instance,
\* and it is the only instance handed out for the name.
C1_ExactlyOnce ==
    bret.op = "DefineRepository" =>
        /\ rbuilds[bret.name].ok + rbuilds[bret.name].failed = 1
        /\ bret.err = NoErr
        /\ handed[bret.name] = {bret.repo}

\* C1 (amended): under every interleaving the builder succeeds at most once
\* per name (exactly once as soon as an instance has been handed out), every
\* caller that receives a Repository receives the same instance, and a caller
\* that receives none returns the error of its own failed builder invocation.
C1_OnceAndShared ==
    \A n \in Names :
        /\ rbuilds[n].ok <= 1
        /\ Cardinality(handed[n]) <= 1
        /\ handed[n] # {} => rbuilds[n].ok = 1
        /\ (bret.op = "DefineRepository" /\ bret.name = n) =>
              \/ /\ bret.err = NoErr
                 /\ bret.repo # 0
                 /\ handed[n] = {bret.repo}
              \/ /\ bret.err \in BuilderErrors
                 /\ bret.repo = 0
                 /\ bret.built
                 /\ rbuilds[n].failed >= 1

\* C1 witness: a caller that found no entry on its first lookup, and did not
\* run the builder itself, has returned the instance another caller built.
C1_Witness ==
    /\ bret.op = "DefineRepository"
    /\ bret.seen = 0
    /\ ~bret.built
    /\ bret.repo # 0
    /\ rbuilds[bret.name].ok = 1
    /\ handed[bret.name] = {bret.repo}

\* C2 (as claimed): DefineRepository called twice in sequence with one name
\* returns the identical instance and invokes the builder at most once.  A
\* call that ran the builder and failed leaves the next call to run it
\* again, so the claim bounds the invocations per name by one, and has every
\* call return an instance.
C2_AtMostOneBuild ==
    /\ \A n \in Names : rbuilds[n].ok + rbuilds[n].failed <= 1
    /\ bret.op = "DefineRepository" => bret.repo # 0

\* C2 (amended): a DefineRepository that returns a Repository leaves it
\* cached under the name; a DefineRepository or GetRepository that starts
\* with the name cached returns that very instance, with no error and without
\* invoking the builder; so the builder succeeds at most once per name and
\* one instance at most is ever handed out for it.  A failed builder
\* invocation caches nothing and the next DefineRepository invokes it again.
C2_SecondCallReuses ==
    /\ \A n \in Names : rbuilds[n].ok <= 1 /\ Cardinality(handed[n]) <= 1
    /\ (bret.op = "DefineRepository" /\ bret.err = NoErr) =>
          /\ bret.repo # 0
          /\ repositories[bret.name] = bret.repo
    /\ (bret.op \in {"DefineRepository", "GetRepository"} /\ bret.seen # 0) =>
          /\ bret.repo = bret.seen
          /\ bret.err = NoErr
          /\ ~bret.built

\* C2 witness: a second DefineRepository of a name has returned the instance
\* the first one built, without building.
C2_Witness ==
    /\ bret.op = "DefineRepository"
    /\ bret.seen # 0
    /\ bret.repo = bret.seen
    /\ ~bret.built
    /\ rbuilds[bret.name].ok = 1

\* C5 (as claimed): GetRepository(name) for a name never successfully
\* defined fails with an error of the class BackendError and no repository,
\* and leaves the name undefined.
C5_FailsWithBackendError ==
    (bret.op = "GetRepository" /\ rbuilds[bret.name].ok = 0) =>
        /\ bret.err.class = "BackendError"
        /\ bret.repo = 0
        /\ repositories[bret.name] = 0

\* C5 (what holds of it): GetRepository(name) for a name never successfully
\* defined fails with the unclassified "unknown repo" error and no
\* repository; a GetRepository call changes neither the cache nor the
\* builder's invocation count, and the builder is only ever invoked by a
\* goroutine inside DefineRepository.
C5_NeverProvisions ==
    /\ [](\A n \in Names :
            (bret.op = "GetRepository" /\ bret.name = n /\ rbuilds[n].ok = 0) =>
                /\ bret.err = Errorf("unknown repo")
                /\ bret.repo = 0
                /\ repositories[n] = 0)
    /\ [][ /\ (bret' # bret /\ bret'.op = "GetRepository") =>
                 /\ repositories' = repositories
                 /\ rbuilds' = rbuilds
           /\ rbuilds' # rbuilds => \E p \in Procs : bpc[p] = "dr_build"
         ]_vars

\* C6 (as claimed): every error a Backend operation returns is of one of the
\* four error classes; no bare error crosses the boundary.
C6_ErrorsClassified ==
    bret.err # NoErr => bret.err.class \in ErrorClasses

\* C7 (as claimed): after SetInContext(key, value), GetFromContext(key)
\* returns that value, and the session the Backend was built with stays
\* retrievable under its key.
C7_SetThenGet ==
    /\ (bret.op = "GetFromContext" /\ bret.set # Nil) => bret.val = bret.set
    /\ (bret.op = "GetFromContext" /\ bret.name = "MONGO_SESSION"
          /\ ctx # <<>> /\ ctx[1].typ = "string" /\ bret.set = Nil) =>
          bret.val = "session"


(***************************************************************************)
(* Claims about the manager.                                               *)
(***************************************************************************)
\* C3: for a registered and configured backend type, under every
\* interleaving of concurrent GetBackend calls the builder succeeds at most
\* once, at most one Backend instance is ever cached for the type, and every
\* GetBackend that succeeds, concurrently or later, returns that instance.
C3_OneBackendPerType ==
    \A t \in Types :
        /\ mbuilds[t].ok <= 1
        /\ Cardinality(everCached[t]) <= 1
        /\ Cardinality(given[t]) <= 1
        /\ given[t] # {} => mbuilds[t].ok = 1
        /\ backends[t] # 0 =>
              /\ everCached[t] = {backends[t]}
              /\ given[t] \subseteq {backends[t]}
        /\ (mret.op = "GetBackend" /\ mret.type = t /\ mret.err = NoErr) =>
              /\ mret.backend # 0
              /\ given[t] = {mret.backend}

\* C3 witness: a GetBackend that missed on its first lookup has found, once
\* it held the mutex, the instance a concurrent call built, and returned it.
C3_Witness ==
    /\ mret.op = "GetBackend"
    /\ mret.path = "locked"
    /\ mret.backend # 0
    /\ dbConfig[mret.type] = "info"
    /\ backendBuilders[mret.type] # None
    /\ mbuilds[mret.type].ok = 1
    /\ given[mret.type] = {mret.backend}

\* C4: GetBackend for a type never registered with SupportBackend fails with
\* an error of class InvalidInput, invokes no builder and leaves the cache as
\* it was.
C4_UnregisteredIsInvalidInput ==
    (mret.op = "GetBackend" /\ backendBuilders[mret.type] = None) =>
        /\ mret.err.class = "InvalidInput"
        /\ mret.backend = 0
        /\ backends[mret.type] = 0
        /\ mbuilds[mret.type] = [ok |-> 0, failed |-> 0]

\* C8: once SupportBackend(type, builder, props) has returned, the type is
\* registered with that builder and those properties, whatever was registered
\* before; GetSupportedBackends lists every registered type exactly once and
\* no other; GetRequiredBackendProperties returns the registered properties
\* without error, and for an unregistered type an error and no properties.
C8_Registration ==
    mpc[1] = "idle" =>
        /\ mret.op = "SupportBackend" =>
              /\ backendBuilders[mret.type] = mret.builder
              /\ backendProps[mret.type] = mret.props
              /\ mret.type \in supported
        /\ mret.op = "GetSupportedBackends" =>
              \A t \in Types :
                  Cardinality({i \in DOMAIN mret.list : mret.list[i] = t})
                      = IF t \in supported THEN 1 ELSE 0
        /\ mret.op = "GetRequiredBackendProperties" =>
              IF backendProps[mret.type] = None
              THEN mret.err # NoErr /\ mret.props = None
              ELSE mret.err = NoErr /\ mret.props = backendProps[mret.type]

\* C8 witness: SupportBackend has returned for a type that was registered
\* with other properties, and the type now has those of the last call.
C8_Witness ==
    /\ mpc[1] = "idle"
    /\ mret.op = "SupportBackend"
    /\ mret.replaced # None
    /\ mret.replaced # mret.props
    /\ backendProps[mret.type] = mret.props
    /\ backendBuilders[mret.type] = mret.builder

=============================================================================
